---------------------------- MODULE Spec2Model ----------------------------
(***************************************************************************)
(* A model of the survey / referral bot of bot_poll.py.                    *)
(*                                                                         *)
(* The store (the sqlite tables), the process-wide reminder-task registry  *)
(* and the messages the bot has put out are the state.  Every inbound      *)
(* event is handled by its own asyncio task: a handler is a sequence of    *)
(* steps, one per awaited operation, and the steps of the handlers that    *)
(* are in flight interleave freely.  A step is the instant at which the    *)
(* awaited operation takes effect; code that runs synchronously on         *)
(* process-wide dictionaries after a handler is resumed is a step of its   *)
(* own.                                                                    *)
(***************************************************************************)
EXTENDS Integers, Sequences, FiniteSets, TLC

(***************************************************************************)
(* Optional values: Python's None / SQL NULL is the empty tuple, a present *)
(* value x is <<x>>.                                                       *)
(***************************************************************************)
None == << >>
Some(x) == << x >>
Val(o) == o[1]

\* Python truthiness of an Optional[int] ("if row[0]", "if note_id").
TruthyInt(o) == o # None /\ Val(o) # 0

\* Python truthiness of an Optional[str] ("if poll_row['device']").
TruthyStr(o) == o # None /\ Val(o) # ""

(***************************************************************************)
(* Text.  A text is a sequence of one-character strings.                   *)
(***************************************************************************)
Digits == << "0", "1", "2", "3", "4", "5", "6", "7", "8", "9" >>

IsDigit(c) == \E i \in 1..10 : Digits[i] = c

DigitVal(c) == (CHOOSE i \in 1..10 : Digits[i] = c) - 1

IsSpace(c) == c = " "

\* str.startswith
StartsWith(s, p) == Len(s) >= Len(p) /\ SubSeq(s, 1, Len(p)) = p

\* str.find, 1-based; 0 when p does not occur in s.
Find(s, p) ==
    LET hits == { i \in 1..(Len(s) - Len(p) + 1) : SubSeq(s, i, i + Len(p) - 1) = p }
    IN  IF hits = {} THEN 0 ELSE CHOOSE i \in hits : \A j \in hits : i <= j

\* str.strip
Strip(s) ==
    LET keep == { i \in 1..Len(s) : ~IsSpace(s[i]) }
    IN  IF keep = {} THEN << >>
        ELSE SubSeq(s, CHOOSE i \in keep : \A j \in keep : i <= j,
                       CHOOSE i \in keep : \A j \in keep : i >= j)

RECURSIVE DigitsValue(_, _)
\* The value of a run of digits and underscores, the underscores skipped.
DigitsValue(s, acc) ==
    IF s = << >> THEN acc
    ELSE IF s[1] = "_" THEN DigitsValue(Tail(s), acc)
    ELSE DigitsValue(Tail(s), 10 * acc + DigitVal(s[1]))

\* The body of an integer literal as int() takes it: digits, with single
\* underscores allowed between digits.
IsIntBody(s) ==
    /\ Len(s) >= 1
    /\ IsDigit(s[1])
    /\ IsDigit(s[Len(s)])
    /\ \A i \in 1..Len(s) : IsDigit(s[i]) \/ s[i] = "_"
    /\ \A i \in 1..(Len(s) - 1) : ~(s[i] = "_" /\ s[i + 1] = "_")

\* int(text): Some(value), or None where Python raises ValueError.
ParseInt(text) ==
    LET s    == Strip(text)
        sign == IF s # << >> /\ s[1] \in {"+", "-"} THEN s[1] ELSE ""
        body == IF sign = "" THEN s ELSE Tail(s)
    IN  IF ~IsIntBody(body) THEN None
        ELSE IF sign = "-" THEN Some(0 - DigitsValue(body, 0))
        ELSE Some(DigitsValue(body, 0))

\* extract_start_payload: the text after the command word, stripped; None when
\* the message is the bare command.
extract_start_payload(text) ==
    LET s  == Strip(text)
        sp == { i \in 1..Len(s) : IsSpace(s[i]) }
    IN  IF sp = {} THEN None
        ELSE LET first == CHOOSE i \in sp : \A j \in sp : i <= j
                 rest  == Strip(SubSeq(s, first + 1, Len(s)))
             IN  IF rest = << >> THEN None ELSE Some(rest)

RefPrefix == << "r", "e", "f", "_" >>
NoteSep == << "_", "n", "o", "t", "e", "_" >>

\* The parse of handle_referral_payload with the comparison of the referrer
\* with the sender left out.
ParseReferral_self_allowed(payload, user_id) ==
    LET bad == [ok |-> FALSE, ref |-> None, note |-> None]
    IN  IF payload = None \/ Val(payload) = << >> \/ ~StartsWith(Val(payload), RefPrefix)
        THEN bad
        ELSE LET body     == SubSeq(Val(payload), 5, Len(Val(payload)))
                 at       == Find(body, NoteSep)
                 ref_part == IF at = 0 THEN body ELSE SubSeq(body, 1, at - 1)
                 note_id  == IF at = 0 THEN None
                             ELSE ParseInt(SubSeq(body, at + Len(NoteSep), Len(body)))
                 ref_id   == ParseInt(ref_part)
             IN  IF ref_id = None THEN bad
                 ELSE [ok |-> TRUE, ref |-> ref_id, note |-> note_id]

\* The synchronous part of handle_referral_payload: the payload parsed into
\* [ok, ref, note]; ok is FALSE on every early return (no payload, no ref_
\* prefix, a referrer id that is no integer, a referrer equal to the sender).
ParseReferral(payload, user_id) ==
    LET bad == [ok |-> FALSE, ref |-> None, note |-> None]
    IN  IF payload = None \/ Val(payload) = << >> \/ ~StartsWith(Val(payload), RefPrefix)
        THEN bad
        ELSE LET body     == SubSeq(Val(payload), 5, Len(Val(payload)))
                 at       == Find(body, NoteSep)
                 ref_part == IF at = 0 THEN body ELSE SubSeq(body, 1, at - 1)
                 note_id  == IF at = 0 THEN None
                             ELSE ParseInt(SubSeq(body, at + Len(NoteSep), Len(body)))
                 ref_id   == ParseInt(ref_part)
             IN  IF ref_id = None THEN bad
                 ELSE IF Val(ref_id) = user_id THEN bad
                 ELSE [ok |-> TRUE, ref |-> ref_id, note |-> note_id]

(***************************************************************************)
(* Bounds and inputs.                                                      *)
(***************************************************************************)
\* Inbound events dispatched in one run.
MaxEvents == 2

\* Telegram ids of the people who talk to the bot: the leads walk the funnel,
\* the referrers own referral links and choose a destination group.
Leads == {2}
Referrers == {1}
Users == Leads \cup Referrers

\* Chats of type group / supergroup the bot can observe.
GroupIds == {10, 20, 30}

\* Concurrent handler tasks.
Tasks == {1, 2}

StartWord == << "/", "s", "t", "a", "r", "t" >>
PayloadRef1 == << "r", "e", "f", "_", "1" >>
PayloadRef2 == << "r", "e", "f", "_", "2" >>
NoteOne == << "_", "n", "o", "t", "e", "_", "1" >>
NoteTwo == << "_", "n", "o", "t", "e", "_", "2" >>

PayloadRef3 == << "r", "e", "f", "_", "3" >>
PayloadNoPrefix == << "r", "f", "_", "1" >>
PayloadBadRef == << "r", "e", "f", "_", "x" >>
NoteBad == << "_", "n", "o", "t", "e", "_", "x" >>

\* /start texts whose payload does not begin with ref_.
NoPrefixTexts == { StartWord \o << " " >> \o PayloadNoPrefix }

\* /start texts whose referrer id is no integer.
BadReferrerTexts == { StartWord \o << " " >> \o PayloadBadRef }

\* /start texts whose note id is no integer (the referrer id is one).
BadNoteTexts == { StartWord \o << " " >> \o PayloadRef1 \o NoteBad }

\* /start texts that name the sending lead as the referrer.
SelfReferralTexts == { StartWord \o << " " >> \o PayloadRef2 }

\* The texts of the /start messages that arrive.
StartTexts ==
    { StartWord,
      StartWord \o << " " >> \o PayloadRef1,
      StartWord \o << " " >> \o PayloadRef1 \o NoteOne,
      StartWord \o << " " >> \o PayloadRef1 \o NoteTwo,
      StartWord \o << " " >> \o PayloadRef2,
      StartWord \o << " " >> \o PayloadRef3 }
        \cup NoPrefixTexts \cup BadReferrerTexts \cup BadNoteTexts
        \cup SelfReferralTexts

\* AGE_OPTIONS, INCOME_OPTIONS, DEVICE_OPTIONS: callback key -> stored label
\* (the labels are transliterated).
AGE_OPTIONS == [k \in {"18-24", "25-30", "31-40", "41_plus"} |->
                   IF k = "41_plus" THEN "41+" ELSE k]
INCOME_OPTIONS == [k \in {"10-20", "20-30", "30-50", "50+"} |->
                      CASE k = "10-20" -> "10-20 tys"
                        [] k = "20-30" -> "20-30 tys"
                        [] k = "30-50" -> "30-50 tys"
                        [] OTHER       -> "50+ tys"]
DEVICE_OPTIONS == [k \in {"poll_device_yes", "poll_device_no"} |->
                      IF k = "poll_device_yes" THEN "Tak, ye" ELSE "Ni, nemaye"]

\* dict.get(key, default)
DictGet(d, k, default) == IF k \in DOMAIN d THEN d[k] ELSE default

\* The buttons that are pressed in the runs explored.
AgeKeys == {"41_plus"}
IncomeKeys == {"20-30"}
DeviceKeys == DOMAIN DEVICE_OPTIONS

(***************************************************************************)
(* The store: one operator per statement, from the table before to the     *)
(* table after (or to the value read).                                     *)
(***************************************************************************)
\* A fresh poll_responses row (the column defaults of init_db).
NewPollRow(referrer_id, note_id) ==
    [referrer_id |-> referrer_id, note_id |-> note_id,
     age |-> None, income |-> None, device |-> None,
     notified |-> FALSE, reminder_sent |-> FALSE]

upsert_user(tbl, user_id) == tbl \cup {user_id}

save_group(tbl, chat_id) == tbl \cup {chat_id}

set_user_group(tbl, user_id, group_id) ==
    [u \in DOMAIN tbl \cup {user_id} |->
        IF u = user_id THEN Some(group_id) ELSE tbl[u]]

\* get_user_group reading the groups table alone: the first known group,
\* whatever the user has configured.
get_user_group_first_group(settings, grps, user_id) ==
    IF grps = {} THEN None
    ELSE Some(CHOOSE g \in grps : \A h \in grps : g <= h)

\* The JOIN of referral_settings with groups: None when the user has no row,
\* or the row names a chat that is not in groups.
get_user_group(settings, grps, user_id) ==
    IF user_id \in DOMAIN settings
       /\ settings[user_id] # None
       /\ Val(settings[user_id]) \in grps
    THEN settings[user_id]
    ELSE None

\* INSERT OR IGNORE under UNIQUE(referrer_id, referred_user_id).
record_referral_click(tbl, referrer_id, referred_user_id, note_id) ==
    IF \E r \in tbl : r.referrer_id = referrer_id /\ r.referred_user_id = referred_user_id
    THEN tbl
    ELSE tbl \cup {[referrer_id |-> referrer_id,
                    referred_user_id |-> referred_user_id,
                    note_id |-> note_id]}

\* What record_referral_click hands back to its caller: the function has no
\* return statement.
record_referral_click_result(tbl, referrer_id, referred_user_id, note_id) == None

record_note_click(tbl, note_id, user_id) ==
    Append(tbl, [note_id |-> note_id, user_id |-> user_id])

count_note_clicks(tbl, note_id) ==
    Cardinality({ i \in DOMAIN tbl : tbl[i].note_id = note_id })

\* ensure_poll_row with the COALESCE left out: a referrer that is given
\* replaces the stored one.
ensure_poll_row_last_referrer(tbl, user_id, referrer_id, note_id) ==
    IF tbl[user_id] = None
    THEN [tbl EXCEPT ![user_id] = Some(NewPollRow(referrer_id, note_id))]
    ELSE LET old == Val(tbl[user_id])
         IN  [tbl EXCEPT ![user_id] = Some(
                 [old EXCEPT
                    !.referrer_id = IF referrer_id # None THEN referrer_id
                                    ELSE old.referrer_id,
                    !.note_id = IF note_id # None THEN note_id ELSE old.note_id])]

\* INSERT ... ON CONFLICT(user_id) DO UPDATE: an existing referrer is kept
\* (COALESCE), a non-null note id replaces the stored one.
ensure_poll_row(tbl, user_id, referrer_id, note_id) ==
    IF tbl[user_id] = None
    THEN [tbl EXCEPT ![user_id] = Some(NewPollRow(referrer_id, note_id))]
    ELSE LET old == Val(tbl[user_id])
         IN  [tbl EXCEPT ![user_id] = Some(
                 [old EXCEPT
                    !.referrer_id = IF old.referrer_id # None THEN old.referrer_id
                                    ELSE referrer_id,
                    !.note_id = IF note_id # None THEN note_id ELSE old.note_id])]

\* update_poll_response with the reset of notified left out.
update_poll_response_keeps_notified(tbl, user_id, age, income, device) ==
    IF age = None /\ income = None /\ device = None THEN tbl
    ELSE IF tbl[user_id] = None THEN tbl
    ELSE LET old == Val(tbl[user_id])
         IN  [tbl EXCEPT ![user_id] = Some(
                 [old EXCEPT
                    !.age = IF age # None THEN age ELSE old.age,
                    !.income = IF income # None THEN income ELSE old.income,
                    !.device = IF device # None THEN device ELSE old.device])]

\* The UPDATE that ends update_poll_response: the fields given are set and
\* notified is set to 0 along with them; with no field given the function has
\* returned before the statement.
update_poll_response(tbl, user_id, age, income, device) ==
    IF age = None /\ income = None /\ device = None THEN tbl
    ELSE IF tbl[user_id] = None THEN tbl
    ELSE LET old == Val(tbl[user_id])
         IN  [tbl EXCEPT ![user_id] = Some(
                 [old EXCEPT
                    !.age = IF age # None THEN age ELSE old.age,
                    !.income = IF income # None THEN income ELSE old.income,
                    !.device = IF device # None THEN device ELSE old.device,
                    !.notified = FALSE])]

fetch_poll_response(tbl, user_id) == tbl[user_id]

\* The values get_referrer_id can return: the referrer of the poll row when
\* it is truthy, else the referrer of the referral_clicks row the second
\* SELECT fetches first (the query has no ORDER BY: any matching row).
get_referrer_id(polls, clicks, user_id) ==
    IF polls[user_id] # None /\ TruthyInt(Val(polls[user_id]).referrer_id)
    THEN {Val(polls[user_id]).referrer_id}
    ELSE LET rows == { r \in clicks : r.referred_user_id = user_id }
         IN  IF rows = {} THEN {None}
             ELSE { IF r.referrer_id # 0 THEN Some(r.referrer_id) ELSE None : r \in rows }

was_notified(tbl, user_id) == tbl[user_id] # None /\ Val(tbl[user_id]).notified

mark_notified(tbl, user_id) ==
    IF tbl[user_id] = None THEN tbl
    ELSE [tbl EXCEPT ![user_id] = Some([Val(tbl[user_id]) EXCEPT !.notified = TRUE])]

mark_reminder_sent(tbl, user_id) ==
    IF tbl[user_id] = None THEN tbl
    ELSE [tbl EXCEPT ![user_id] = Some([Val(tbl[user_id]) EXCEPT !.reminder_sent = TRUE])]

reset_reminder_sent(tbl, user_id) ==
    IF tbl[user_id] = None THEN tbl
    ELSE [tbl EXCEPT ![user_id] = Some([Val(tbl[user_id]) EXCEPT !.reminder_sent = FALSE])]

(***************************************************************************)
(* The reminder-task registry (REMINDER_TASKS).  An entry holds the        *)
(* position of the user's reminder_worker: "sleep" (in asyncio.sleep),     *)
(* "text" (past the state check, reading the reminder text), "send" (the   *)
(* message on its way), "mark" (marking reminder_sent), "done" (finished,  *)
(* still in the dictionary); "absent" is no entry.                         *)
(***************************************************************************)
\* pop + task.cancel(): the cancelled worker takes no further step.
cancel_reminder_task(reg, user_id) == [reg EXCEPT ![user_id] = "absent"]

\* The previous task is cancelled and a new worker is registered.
schedule_reminder(reg, user_id) ==
    [cancel_reminder_task(reg, user_id) EXCEPT ![user_id] = "sleep"]

\* The positions of a worker that is outstanding: created, neither finished
\* nor cancelled.
Outstanding == {"sleep", "text", "send", "mark"}

\* REMINDER_TASKS[user_id] = asyncio.create_task(...): the number of workers
\* the assignment leaves running without a reference, given the registry it
\* overwrites (a task that is still outstanding there goes on unreferenced).
overwritten_worker(reg, user_id) ==
    IF reg[user_id] \in Outstanding THEN 1 ELSE 0

(***************************************************************************)
(* State.                                                                  *)
(***************************************************************************)
VARIABLES
    users,              \* table users: the ids that have a row
    groups,             \* table groups: the chat ids that have a row
    referral_settings,  \* table referral_settings: user id -> group id
    referral_clicks,    \* table referral_clicks: its rows
    note_clicks,        \* table note_clicks: its rows, in insertion order
    poll_responses,     \* table poll_responses: user id -> row
    REMINDER_TASKS,     \* user id -> position of the registered reminder_worker
    chat,               \* user id -> the funnel keyboards and the device-branch
                        \* messages the bot has sent there
    group_out,          \* the lead summaries sent to groups, in order
    reminder_out,       \* user id -> number of reminder messages sent
    claim_log,          \* user id -> the outcomes of the notified checks made for
                        \* the user since the last UPDATE of the user's poll row
    task,               \* handler task -> its position and locals
    nEvents,            \* inbound events dispatched so far
    unreferenced_workers, \* user id -> number of reminder_worker tasks that are
                        \* still running but that REMINDER_TASKS no longer holds
    device_done,        \* user id -> a handle_device_choice of the user has returned
    session_reminders,  \* user id -> reminder messages sent to the user since the
                        \* user's last /start arrived
    user_names,         \* table users: user id -> the username column of the row
    notes,              \* table notes: its rows
    sqlite_sequence,    \* the last AUTOINCREMENT id given to a row of notes
    reminder_settings,  \* table reminder_settings: the text of the row id = 1
    NOTE_CREATION_STATE, \* user id -> the note the user is dictating, if any
    REMINDER_EDITORS,   \* the users whose next message is the new reminder text
    alerts,             \* user id -> the show_alert answers given to the user
    sheets_logger,      \* the SheetsReferralLogger object: its configuration and
                        \* its _config_error_logged flag
    lock,               \* SheetsReferralLogger._lock: its holder and its waiters
    call,               \* log_referral_click_event call -> its position and counts
    threads,            \* the sink functions running in worker threads
    error_log,          \* the records written with logger.error, in order
    fn,                 \* a pure function of google_sheets_logger.py, its
                        \* arguments and, once applied, its result
    spreadsheet,        \* stats worksheet name -> the rows of the worksheet
    processed           \* the events _upsert_stats_sheet_sync has processed

vars == << users, groups, referral_settings, referral_clicks, note_clicks,
           poll_responses, REMINDER_TASKS, chat, group_out, reminder_out,
           claim_log, task, nEvents, unreferenced_workers, device_done,
           session_reminders, user_names, notes, sqlite_sequence,
           reminder_settings, NOTE_CREATION_STATE, REMINDER_EDITORS, alerts,
           sheets_logger, lock, call, threads, error_log, fn, spreadsheet,
           processed >>

\* The state of the notes and reminder menus.
menu_vars == << user_names, notes, sqlite_sequence, reminder_settings,
                NOTE_CREATION_STATE, REMINDER_EDITORS, alerts >>

\* The state of the spreadsheet logger.
sink_vars == << sheets_logger, lock, call, threads, error_log >>

\* The function under application.
fn_vars == << fn >>

\* The content of the spreadsheet.
sheet_vars == << spreadsheet, processed >>

\* The state that only the funnel, the referral links and the reminders write.
poll_vars == << referral_clicks, note_clicks, poll_responses, REMINDER_TASKS, chat,
                group_out, reminder_out, claim_log, task, unreferenced_workers,
                device_done, session_reminders >>

\* All of the bot's own state.
bot_vars == << users, groups, referral_settings, nEvents, poll_vars, menu_vars >>

\* A handler slot with no handler running in it.
IdleTask ==
    [pc |-> "idle", kind |-> "none", user |-> 0,
     payload |-> None, ref |-> None, note |-> None, val |-> None,
     row |-> None, claimed |-> FALSE, group |-> None, ret |-> None]

\* DEFAULT_REMINDER_TEXT, which init_db writes into reminder_settings.
DEFAULT_REMINDER_TEXT == << "h", "i" >>

\* The menus as init_db and the module's globals leave them: no note, the
\* default reminder text, nobody dictating a note or a reminder text.
MenusAtRest ==
    /\ user_names = [u \in Users |-> None]
    /\ notes = {}
    /\ sqlite_sequence = 0
    /\ reminder_settings = DEFAULT_REMINDER_TEXT
    /\ NOTE_CREATION_STATE = [u \in Users |-> None]
    /\ REMINDER_EDITORS = {}
    /\ alerts = [u \in Users |-> << >>]

\* log_referral_click_event calls made in one run.
MaxCalls == 3
Calls == 1..MaxCalls

\* A call of log_referral_click_event that has not been made yet.
IdleCall == [pc |-> "idle", appends |-> 0, upserts |-> 0, append |-> "none",
             upsert |-> "none", raised |-> FALSE]

\* Optional[str] "or ''": None and the empty string both give the empty string.
OrEmpty(o) == IF o = None THEN "" ELSE Val(o)

\* SheetsReferralLogger.__init__
SheetsReferralLogger(enabled, spreadsheet_id, service_account_json) ==
    [enabled |-> enabled,
     spreadsheet_id |-> OrEmpty(spreadsheet_id),
     service_account_json |-> OrEmpty(service_account_json),
     config_error_logged |-> FALSE]

\* A logger that is switched off and has not been called.
SinkAtRest ==
    /\ sheets_logger = SheetsReferralLogger(FALSE, None, None)
    /\ lock = [holder |-> None, waiters |-> << >>]
    /\ call = [c \in Calls |-> IdleCall]
    /\ threads = {}
    /\ error_log = << >>

\* No function under application.
FnAtRest == fn = [op |-> "none", args |-> << >>, out |-> None]

\* A spreadsheet that has not been opened: no worksheet, no event processed.
SheetsAtRest ==
    /\ spreadsheet = << >>
    /\ processed = << >>

\* The store right after init_db, nothing said to the bot yet.
InitEmpty ==
    /\ users = {}
    /\ groups = {}
    /\ referral_settings = [u \in Users |-> None]
    /\ referral_clicks = {}
    /\ note_clicks = << >>
    /\ poll_responses = [u \in Users |-> None]
    /\ REMINDER_TASKS = [u \in Users |-> "absent"]
    /\ chat = [u \in Users |-> {}]
    /\ group_out = << >>
    /\ reminder_out = [u \in Users |-> 0]
    /\ claim_log = [u \in Users |-> << >>]
    /\ task = [t \in Tasks |-> IdleTask]
    /\ nEvents = 0
    /\ unreferenced_workers = [u \in Users |-> 0]
    /\ device_done = [u \in Users |-> FALSE]
    /\ session_reminders = [u \in Users |-> 0]
    /\ MenusAtRest
    /\ SinkAtRest
    /\ FnAtRest
    /\ SheetsAtRest

\* What a lead's /start with the given text leaves behind once it has been
\* handled alone: the referral click, the note click and the poll row.
AfterStart(u, text) ==
    LET p == ParseReferral(extract_start_payload(text), u)
    IN  [clicks |-> IF p.ok THEN record_referral_click({}, Val(p.ref), u, p.note) ELSE {},
         notes  |-> IF p.ok /\ TruthyInt(p.note)
                    THEN record_note_click(<< >>, Val(p.note), u) ELSE << >>,
         polls  |-> ensure_poll_row(
                        IF p.ok THEN ensure_poll_row([v \in Users |-> None], u, p.ref, p.note)
                        ELSE [v \in Users |-> None],
                        u, None, None)]

\* The /start texts of the leads that are in the funnel when a run begins.
SeedTexts == { StartWord, StartWord \o << " " >> \o PayloadRef1 \o NoteOne }

\* The runs start with no handler in flight, the bot having seen two groups,
\* in one of the states that earlier events, handled one after the other,
\* lead to: the referrer has chosen the first group or none, and the lead
\* either has not talked to the bot yet or has sent /start and /poll and
\* answered the age and the income question (the reminder scheduled by
\* /start is still asleep).
Init ==
    /\ groups = {10, 20}
    /\ \E chosen \in BOOLEAN, text \in SeedTexts :
          /\ referral_settings = [u \in Users |->
                 IF chosen /\ u = 1 THEN Some(10) ELSE None]
          /\ \/ /\ users = IF chosen THEN {1} ELSE {}
                /\ referral_clicks = {}
                /\ note_clicks = << >>
                /\ poll_responses = [u \in Users |-> None]
                /\ REMINDER_TASKS = [u \in Users |-> "absent"]
                /\ chat = [u \in Users |-> {}]
             \/ /\ users = IF chosen THEN {1, 2} ELSE {2}
                /\ referral_clicks = AfterStart(2, text).clicks
                /\ note_clicks = AfterStart(2, text).notes
                /\ poll_responses =
                       update_poll_response(
                           update_poll_response(AfterStart(2, text).polls, 2,
                                                Some(AGE_OPTIONS["18-24"]), None, None),
                           2, None, Some(INCOME_OPTIONS["20-30"]), None)
                /\ REMINDER_TASKS = [u \in Users |-> IF u = 2 THEN "sleep" ELSE "absent"]
                /\ chat = [u \in Users |->
                       IF u = 2 THEN {"start_poll", "age", "income", "device"} ELSE {}]
    /\ group_out = << >>
    /\ reminder_out = [u \in Users |-> 0]
    /\ claim_log = [u \in Users |-> << >>]
    /\ task = [t \in Tasks |-> IdleTask]
    /\ nEvents = 0
    /\ unreferenced_workers = [u \in Users |-> 0]
    /\ device_done = [u \in Users |-> FALSE]
    /\ session_reminders = [u \in Users |-> 0]
    /\ MenusAtRest
    /\ SinkAtRest
    /\ FnAtRest
    /\ SheetsAtRest

\* The dispatcher starts a handler in the first slot that is free.
Free(t) ==
    /\ task[t].pc = "idle"
    /\ \A s \in Tasks : s < t => task[s].pc # "idle"
    /\ nEvents < MaxEvents

At(t, pc) == task[t].pc = pc

Goto(t, pc) == task' = [task EXCEPT ![t].pc = pc]

Finish(t) == task' = [task EXCEPT ![t] = IdleTask]

(***************************************************************************)
(* cmd_start and handle_referral_payload.                                  *)
(***************************************************************************)
\* /start arrives: upsert_user, then the payload is extracted and parsed.
cmd_start(t, u, text) ==
    /\ Free(t)
    /\ users' = upsert_user(users, u)
    /\ LET p == ParseReferral(extract_start_payload(text), u)
       IN  task' = [task EXCEPT ![t] =
                      [IdleTask EXCEPT !.kind = "start", !.user = u,
                                       !.payload = extract_start_payload(text),
                                       !.ref = p.ref, !.note = p.note,
                                       !.pc = IF p.ok THEN "ref_click" ELSE "start_ensure"]]
    /\ nEvents' = nEvents + 1
    /\ session_reminders' = [session_reminders EXCEPT ![u] = 0]
    /\ UNCHANGED << menu_vars, sink_vars, fn_vars, sheet_vars, claim_log, groups, referral_settings, referral_clicks, note_clicks,
                    poll_responses, REMINDER_TASKS, chat, group_out, reminder_out,
                    unreferenced_workers, device_done >>

\* await record_referral_click(ref_id, user.id, note_id)
ReferralClick(t) ==
    /\ At(t, "ref_click")
    /\ referral_clicks' = record_referral_click(referral_clicks, Val(task[t].ref),
                                                task[t].user, task[t].note)
    /\ task' = [task EXCEPT
                  ![t].ret = record_referral_click_result(referral_clicks, Val(task[t].ref),
                                                          task[t].user, task[t].note),
                  ![t].pc = IF TruthyInt(task[t].note) THEN "ref_note_click"
                            ELSE "ref_ensure"]
    /\ UNCHANGED << menu_vars, sink_vars, fn_vars, sheet_vars, claim_log, users, groups, referral_settings, note_clicks, poll_responses,
                    REMINDER_TASKS, chat, group_out, reminder_out, nEvents,
                    unreferenced_workers, device_done, session_reminders >>

\* if note_id: await record_note_click(note_id, user.id)
ReferralNoteClick(t) ==
    /\ At(t, "ref_note_click")
    /\ note_clicks' = record_note_click(note_clicks, Val(task[t].note), task[t].user)
    /\ Goto(t, "ref_ensure")
    /\ UNCHANGED << menu_vars, sink_vars, fn_vars, sheet_vars, claim_log, users, groups, referral_settings, referral_clicks, poll_responses,
                    REMINDER_TASKS, chat, group_out, reminder_out, nEvents,
                    unreferenced_workers, device_done, session_reminders >>

\* The poll row ensured with the referrer alone, the note left out.
ReferralEnsure_without_note(t) ==
    /\ At(t, "ref_ensure")
    /\ poll_responses' = ensure_poll_row(poll_responses, task[t].user, task[t].ref, None)
    /\ Goto(t, "start_ensure")
    /\ UNCHANGED << menu_vars, sink_vars, fn_vars, sheet_vars, claim_log, users, groups, referral_settings, referral_clicks, note_clicks,
                    REMINDER_TASKS, chat, group_out, reminder_out, nEvents,
                    unreferenced_workers, device_done, session_reminders >>

\* await ensure_poll_row(user.id, ref_id, note_id)
ReferralEnsure(t) ==
    /\ At(t, "ref_ensure")
    /\ poll_responses' = ensure_poll_row(poll_responses, task[t].user,
                                         task[t].ref, task[t].note)
    /\ Goto(t, "start_ensure")
    /\ UNCHANGED << menu_vars, sink_vars, fn_vars, sheet_vars, claim_log, users, groups, referral_settings, referral_clicks, note_clicks,
                    REMINDER_TASKS, chat, group_out, reminder_out, nEvents,
                    unreferenced_workers, device_done, session_reminders >>

\* await ensure_poll_row(message.from_user.id)
StartEnsure(t) ==
    /\ At(t, "start_ensure")
    /\ poll_responses' = ensure_poll_row(poll_responses, task[t].user, None, None)
    /\ Goto(t, "start_fetch")
    /\ UNCHANGED << menu_vars, sink_vars, fn_vars, sheet_vars, claim_log, users, groups, referral_settings, referral_clicks, note_clicks,
                    REMINDER_TASKS, chat, group_out, reminder_out, nEvents,
                    unreferenced_workers, device_done, session_reminders >>

\* The branch of cmd_start taken as if the device question were answered.
StartFetch_takes_cancel_branch(t) ==
    /\ At(t, "start_fetch")
    /\ Goto(t, "start_cancel")
    /\ UNCHANGED << menu_vars, sink_vars, fn_vars, sheet_vars, claim_log, users, groups, referral_settings, referral_clicks, note_clicks,
                    poll_responses, REMINDER_TASKS, chat, group_out, reminder_out,
                    nEvents, unreferenced_workers, device_done, session_reminders >>

\* poll_row = await fetch_poll_response(...); the branch on poll_row["device"]
StartFetch(t) ==
    /\ At(t, "start_fetch")
    /\ LET row == fetch_poll_response(poll_responses, task[t].user)
       IN  Goto(t, IF row = None \/ ~TruthyStr(Val(row).device)
                   THEN "start_reset" ELSE "start_cancel")
    /\ UNCHANGED << menu_vars, sink_vars, fn_vars, sheet_vars, claim_log, users, groups, referral_settings, referral_clicks, note_clicks,
                    poll_responses, REMINDER_TASKS, chat, group_out, reminder_out,
                    nEvents,
                    unreferenced_workers, device_done, session_reminders >>

\* await reset_reminder_sent(...)
StartReset(t) ==
    /\ At(t, "start_reset")
    /\ poll_responses' = reset_reminder_sent(poll_responses, task[t].user)
    /\ Goto(t, "start_schedule")
    /\ UNCHANGED << menu_vars, sink_vars, fn_vars, sheet_vars, claim_log, users, groups, referral_settings, referral_clicks, note_clicks,
                    REMINDER_TASKS, chat, group_out, reminder_out, nEvents,
                    unreferenced_workers, device_done, session_reminders >>

\* The new worker registered without the previous one being cancelled.
StartSchedule_without_cancel(t) ==
    /\ At(t, "start_schedule")
    /\ REMINDER_TASKS' = [REMINDER_TASKS EXCEPT ![task[t].user] = "sleep"]
    /\ unreferenced_workers' =
           [unreferenced_workers EXCEPT ![task[t].user] =
               @ + overwritten_worker(REMINDER_TASKS, task[t].user)]
    /\ Goto(t, "start_reply")
    /\ UNCHANGED << menu_vars, sink_vars, fn_vars, sheet_vars, claim_log, users, groups, referral_settings, referral_clicks, note_clicks,
                    poll_responses, chat, group_out, reminder_out, nEvents,
                    device_done, session_reminders >>

\* await schedule_reminder(...): no suspension inside, the registry is updated
\* as soon as the handler is resumed.
StartSchedule(t) ==
    /\ At(t, "start_schedule")
    /\ REMINDER_TASKS' = schedule_reminder(REMINDER_TASKS, task[t].user)
    /\ unreferenced_workers' =
           [unreferenced_workers EXCEPT ![task[t].user] =
               @ + overwritten_worker(cancel_reminder_task(REMINDER_TASKS, task[t].user),
                                      task[t].user)]
    /\ Goto(t, "start_reply")
    /\ UNCHANGED << menu_vars, sink_vars, fn_vars, sheet_vars, claim_log, users, groups, referral_settings, referral_clicks, note_clicks,
                    poll_responses, chat, group_out, reminder_out, nEvents,
                    device_done, session_reminders >>

\* else: cancel_reminder_task(...)
StartCancel(t) ==
    /\ At(t, "start_cancel")
    /\ REMINDER_TASKS' = cancel_reminder_task(REMINDER_TASKS, task[t].user)
    /\ Goto(t, "start_reply")
    /\ UNCHANGED << menu_vars, sink_vars, fn_vars, sheet_vars, claim_log, users, groups, referral_settings, referral_clicks, note_clicks,
                    poll_responses, chat, group_out, reminder_out, nEvents,
                    unreferenced_workers, device_done, session_reminders >>

\* The greeting and the message that carries the start keyboard.
StartReply(t) ==
    /\ At(t, "start_reply")
    /\ chat' = [chat EXCEPT ![task[t].user] = @ \cup {"start_poll"}]
    /\ Finish(t)
    /\ UNCHANGED << menu_vars, sink_vars, fn_vars, sheet_vars, claim_log, users, groups, referral_settings, referral_clicks, note_clicks,
                    poll_responses, REMINDER_TASKS, group_out, reminder_out, nEvents,
                    unreferenced_workers, device_done, session_reminders >>

(***************************************************************************)
(* The funnel: cmd_poll, handle_poll_callback, handle_age_choice,          *)
(* handle_income_choice, handle_device_choice.  A callback arrives only    *)
(* from a keyboard the bot has sent to that chat.                          *)
(***************************************************************************)
\* /poll: upsert_user, then the age question.
cmd_poll(u) ==
    /\ nEvents < MaxEvents
    /\ users' = upsert_user(users, u)
    /\ chat' = [chat EXCEPT ![u] = @ \cup {"age"}]
    /\ nEvents' = nEvents + 1
    /\ UNCHANGED << menu_vars, sink_vars, fn_vars, sheet_vars, claim_log, groups, referral_settings, referral_clicks, note_clicks,
                    poll_responses, REMINDER_TASKS, group_out, reminder_out, task,
                    unreferenced_workers, device_done, session_reminders >>

\* The "start_poll" button: upsert_user, then the age question.
handle_poll_callback(u) ==
    /\ nEvents < MaxEvents
    /\ "start_poll" \in chat[u]
    /\ users' = upsert_user(users, u)
    /\ chat' = [chat EXCEPT ![u] = @ \cup {"age"}]
    /\ nEvents' = nEvents + 1
    /\ UNCHANGED << menu_vars, sink_vars, fn_vars, sheet_vars, claim_log, groups, referral_settings, referral_clicks, note_clicks,
                    poll_responses, REMINDER_TASKS, group_out, reminder_out, task,
                    unreferenced_workers, device_done, session_reminders >>

\* An age button: upsert_user, the label looked up, update_poll_response begun.
handle_age_choice(t, u, raw_value) ==
    /\ Free(t)
    /\ "age" \in chat[u]
    /\ users' = upsert_user(users, u)
    /\ task' = [task EXCEPT ![t] =
                  [IdleTask EXCEPT !.kind = "age", !.user = u, !.pc = "upr_get",
                                   !.val = Some(DictGet(AGE_OPTIONS, raw_value, raw_value))]]
    /\ nEvents' = nEvents + 1
    /\ UNCHANGED << menu_vars, sink_vars, fn_vars, sheet_vars, claim_log, groups, referral_settings, referral_clicks, note_clicks,
                    poll_responses, REMINDER_TASKS, chat, group_out, reminder_out,
                    unreferenced_workers, device_done, session_reminders >>

\* An income button.
handle_income_choice(t, u, raw_value) ==
    /\ Free(t)
    /\ "income" \in chat[u]
    /\ users' = upsert_user(users, u)
    /\ task' = [task EXCEPT ![t] =
                  [IdleTask EXCEPT !.kind = "income", !.user = u, !.pc = "upr_get",
                                   !.val = Some(DictGet(INCOME_OPTIONS, raw_value, raw_value))]]
    /\ nEvents' = nEvents + 1
    /\ UNCHANGED << menu_vars, sink_vars, fn_vars, sheet_vars, claim_log, groups, referral_settings, referral_clicks, note_clicks,
                    poll_responses, REMINDER_TASKS, chat, group_out, reminder_out,
                    unreferenced_workers, device_done, session_reminders >>

\* A device button (the filter admits the keys of DEVICE_OPTIONS only).
handle_device_choice(t, u, data) ==
    /\ Free(t)
    /\ "device" \in chat[u]
    /\ data \in DOMAIN DEVICE_OPTIONS
    /\ users' = upsert_user(users, u)
    /\ task' = [task EXCEPT ![t] =
                  [IdleTask EXCEPT !.kind = "device", !.user = u, !.pc = "upr_get",
                                   !.val = Some(DictGet(DEVICE_OPTIONS, data, "Nevidomo"))]]
    /\ nEvents' = nEvents + 1
    /\ UNCHANGED << menu_vars, sink_vars, fn_vars, sheet_vars, claim_log, groups, referral_settings, referral_clicks, note_clicks,
                    poll_responses, REMINDER_TASKS, chat, group_out, reminder_out,
                    unreferenced_workers, device_done, session_reminders >>

\* update_poll_response: referrer_id = await get_referrer_id(user_id)
UpdateGetReferrer(t) ==
    /\ At(t, "upr_get")
    /\ \E r \in get_referrer_id(poll_responses, referral_clicks, task[t].user) :
          task' = [task EXCEPT ![t].ref = r, ![t].pc = "upr_ensure"]
    /\ UNCHANGED << menu_vars, sink_vars, fn_vars, sheet_vars, claim_log, users, groups, referral_settings, referral_clicks, note_clicks,
                    poll_responses, REMINDER_TASKS, chat, group_out, reminder_out,
                    nEvents,
                    unreferenced_workers, device_done, session_reminders >>

\* update_poll_response: await ensure_poll_row(user_id, referrer_id)
UpdateEnsure(t) ==
    /\ At(t, "upr_ensure")
    /\ poll_responses' = ensure_poll_row(poll_responses, task[t].user, task[t].ref, None)
    /\ Goto(t, "upr_update")
    /\ UNCHANGED << menu_vars, sink_vars, fn_vars, sheet_vars, claim_log, users, groups, referral_settings, referral_clicks, note_clicks,
                    REMINDER_TASKS, chat, group_out, reminder_out, nEvents,
                    unreferenced_workers, device_done, session_reminders >>

\* The UPDATE with "notified = 0" appended for a device answer only.
UpdateStatement_resets_on_device_only(t) ==
    /\ At(t, "upr_update")
    /\ poll_responses' =
           IF task[t].kind = "device"
           THEN update_poll_response(poll_responses, task[t].user,
                                     None, None, task[t].val)
           ELSE update_poll_response_keeps_notified(
                    poll_responses, task[t].user,
                    IF task[t].kind = "age" THEN task[t].val ELSE None,
                    IF task[t].kind = "income" THEN task[t].val ELSE None,
                    None)
    /\ Goto(t, CASE task[t].kind = "age" -> "age_reply"
                 [] task[t].kind = "income" -> "income_reply"
                 [] OTHER -> "dev_cancel")
    /\ claim_log' = [claim_log EXCEPT ![task[t].user] = << >>]
    /\ UNCHANGED << menu_vars, sink_vars, fn_vars, sheet_vars, users, groups, referral_settings, referral_clicks, note_clicks,
                    REMINDER_TASKS, chat, group_out, reminder_out, nEvents,
                    unreferenced_workers, device_done, session_reminders >>

\* update_poll_response: the UPDATE statement, with the one field the handler
\* passes.
UpdateStatement(t) ==
    /\ At(t, "upr_update")
    /\ poll_responses' = update_poll_response(
           poll_responses, task[t].user,
           IF task[t].kind = "age" THEN task[t].val ELSE None,
           IF task[t].kind = "income" THEN task[t].val ELSE None,
           IF task[t].kind = "device" THEN task[t].val ELSE None)
    /\ Goto(t, CASE task[t].kind = "age" -> "age_reply"
                 [] task[t].kind = "income" -> "income_reply"
                 [] OTHER -> "dev_cancel")
    /\ claim_log' = [claim_log EXCEPT ![task[t].user] = << >>]
    /\ UNCHANGED << menu_vars, sink_vars, fn_vars, sheet_vars, users, groups, referral_settings, referral_clicks, note_clicks,
                    REMINDER_TASKS, chat, group_out, reminder_out, nEvents,
                    unreferenced_workers, device_done, session_reminders >>

\* handle_age_choice: the affirmation, then the income question.
AgeReply(t) ==
    /\ At(t, "age_reply")
    /\ chat' = [chat EXCEPT ![task[t].user] = @ \cup {"income"}]
    /\ Finish(t)
    /\ UNCHANGED << menu_vars, sink_vars, fn_vars, sheet_vars, claim_log, users, groups, referral_settings, referral_clicks, note_clicks,
                    poll_responses, REMINDER_TASKS, group_out, reminder_out, nEvents,
                    unreferenced_workers, device_done, session_reminders >>

\* handle_income_choice: the affirmation, then the device question.
IncomeReply(t) ==
    /\ At(t, "income_reply")
    /\ chat' = [chat EXCEPT ![task[t].user] = @ \cup {"device"}]
    /\ Finish(t)
    /\ UNCHANGED << menu_vars, sink_vars, fn_vars, sheet_vars, claim_log, users, groups, referral_settings, referral_clicks, note_clicks,
                    poll_responses, REMINDER_TASKS, group_out, reminder_out, nEvents,
                    unreferenced_workers, device_done, session_reminders >>

\* The device handler going on without cancelling the reminder task.
DeviceCancel_skipped(t) ==
    /\ At(t, "dev_cancel")
    /\ Goto(t, "dev_mark")
    /\ UNCHANGED << menu_vars, sink_vars, fn_vars, sheet_vars, claim_log, users, groups, referral_settings, referral_clicks, note_clicks,
                    poll_responses, REMINDER_TASKS, chat, group_out, reminder_out, nEvents,
                    unreferenced_workers, device_done, session_reminders >>

\* handle_device_choice: cancel_reminder_task(...), run as soon as the handler
\* is resumed after the UPDATE.
DeviceCancel(t) ==
    /\ At(t, "dev_cancel")
    /\ REMINDER_TASKS' = cancel_reminder_task(REMINDER_TASKS, task[t].user)
    /\ Goto(t, "dev_mark")
    /\ UNCHANGED << menu_vars, sink_vars, fn_vars, sheet_vars, claim_log, users, groups, referral_settings, referral_clicks, note_clicks,
                    poll_responses, chat, group_out, reminder_out, nEvents,
                    unreferenced_workers, device_done, session_reminders >>

\* handle_device_choice: await mark_reminder_sent(...)
DeviceMarkReminder(t) ==
    /\ At(t, "dev_mark")
    /\ poll_responses' = mark_reminder_sent(poll_responses, task[t].user)
    /\ Goto(t, "dev_reply")
    /\ UNCHANGED << menu_vars, sink_vars, fn_vars, sheet_vars, claim_log, users, groups, referral_settings, referral_clicks, note_clicks,
                    REMINDER_TASKS, chat, group_out, reminder_out, nEvents,
                    unreferenced_workers, device_done, session_reminders >>

\* handle_device_choice: the branch-specific message(s) to the user, the
\* referral bonus programme for "poll_device_no", the own pace otherwise
\* (the filter admits two keys only, so the label stored tells the key).
DeviceReply(t) ==
    /\ At(t, "dev_reply")
    /\ chat' = [chat EXCEPT ![task[t].user] =
                   @ \cup {IF task[t].val = Some(DEVICE_OPTIONS["poll_device_no"])
                           THEN "referral_bonus" ELSE "own_pace"}]
    /\ Goto(t, "ntf_fetch")
    /\ UNCHANGED << menu_vars, sink_vars, fn_vars, sheet_vars, claim_log, users, groups, referral_settings, referral_clicks, note_clicks,
                    poll_responses, REMINDER_TASKS, group_out, reminder_out,
                    nEvents,
                    unreferenced_workers, device_done, session_reminders >>

(***************************************************************************)
(* notify_group_about_poll.                                                *)
(***************************************************************************)
\* poll_row = await fetch_poll_response(user_id); return when there is no row
\* or no device answer.
NotifyFetch(t) ==
    /\ At(t, "ntf_fetch")
    /\ LET row == fetch_poll_response(poll_responses, task[t].user)
       IN  task' = [task EXCEPT
                      ![t].row = row,
                      ![t].pc = IF row = None \/ ~TruthyStr(Val(row).device)
                                THEN "dev_prompt" ELSE "ntf_check"]
    /\ UNCHANGED << menu_vars, sink_vars, fn_vars, sheet_vars, claim_log, users, groups, referral_settings, referral_clicks, note_clicks,
                    poll_responses, REMINDER_TASKS, chat, group_out, reminder_out,
                    nEvents,
                    unreferenced_workers, device_done, session_reminders >>

\* ... or await was_notified(user_id): return; then the referrer of the row
\* that was fetched: return when there is none.
NotifyCheck(t) ==
    /\ At(t, "ntf_check")
    /\ LET free == ~was_notified(poll_responses, task[t].user)
       IN  /\ task' = [task EXCEPT
                         ![t].claimed = free,
                         ![t].pc = IF ~free THEN "dev_prompt"
                                   ELSE IF ~TruthyInt(Val(task[t].row).referrer_id)
                                   THEN "dev_prompt"
                                   ELSE "ntf_group"]
           /\ claim_log' = [claim_log EXCEPT ![task[t].user] = Append(@, free)]
    /\ UNCHANGED << menu_vars, sink_vars, fn_vars, sheet_vars, users, groups, referral_settings, referral_clicks, note_clicks,
                    poll_responses, REMINDER_TASKS, chat, group_out, reminder_out,
                    nEvents,
                    unreferenced_workers, device_done, session_reminders >>

\* notify_group_about_poll's return for a referrer without a group taken as
\* the end of the device handler.
NotifyGroup_ends_handler(t) ==
    /\ At(t, "ntf_group")
    /\ LET g == get_user_group(referral_settings, groups,
                               Val(Val(task[t].row).referrer_id))
       IN  task' = [task EXCEPT ![t] =
                       IF g = None THEN IdleTask
                       ELSE [@ EXCEPT !.group = g, !.pc = "ntf_send"]]
    /\ UNCHANGED << menu_vars, sink_vars, fn_vars, sheet_vars, claim_log, users, groups, referral_settings, referral_clicks, note_clicks,
                    poll_responses, REMINDER_TASKS, chat, group_out, reminder_out,
                    nEvents,
                    unreferenced_workers, device_done, session_reminders >>

\* group_info = await get_user_group(referrer_id); return when there is none.
NotifyGroup(t) ==
    /\ At(t, "ntf_group")
    /\ LET g == get_user_group(referral_settings, groups,
                               Val(Val(task[t].row).referrer_id))
       IN  task' = [task EXCEPT ![t].group = g,
                                ![t].pc = IF g = None THEN "dev_prompt" ELSE "ntf_send"]
    /\ UNCHANGED << menu_vars, sink_vars, fn_vars, sheet_vars, claim_log, users, groups, referral_settings, referral_clicks, note_clicks,
                    poll_responses, REMINDER_TASKS, chat, group_out, reminder_out,
                    nEvents,
                    unreferenced_workers, device_done, session_reminders >>

\* The user rows and the note are read for the text, then
\* await bot.send_message(group_info[0], ...)
NotifySend(t) ==
    /\ At(t, "ntf_send")
    /\ group_out' = Append(group_out,
                           [chat_id |-> Val(task[t].group),
                            user_id |-> task[t].user,
                            referrer_id |-> Val(Val(task[t].row).referrer_id)])
    /\ Goto(t, "ntf_mark")
    /\ UNCHANGED << menu_vars, sink_vars, fn_vars, sheet_vars, claim_log, users, groups, referral_settings, referral_clicks, note_clicks,
                    poll_responses, REMINDER_TASKS, chat, reminder_out, nEvents,
                    unreferenced_workers, device_done, session_reminders >>

\* await mark_notified(user_id)
NotifyMark(t) ==
    /\ At(t, "ntf_mark")
    /\ poll_responses' = mark_notified(poll_responses, task[t].user)
    /\ Goto(t, "dev_prompt")
    /\ UNCHANGED << menu_vars, sink_vars, fn_vars, sheet_vars, claim_log, users, groups, referral_settings, referral_clicks, note_clicks,
                    REMINDER_TASKS, chat, group_out, reminder_out, nEvents,
                    unreferenced_workers, device_done, session_reminders >>

\* handle_device_choice: send_manager_prompt, the end of the handler.
DevicePrompt(t) ==
    /\ At(t, "dev_prompt")
    /\ chat' = [chat EXCEPT ![task[t].user] = @ \cup {"request_manager"}]
    /\ Finish(t)
    /\ device_done' = [device_done EXCEPT ![task[t].user] = TRUE]
    /\ UNCHANGED << menu_vars, sink_vars, fn_vars, sheet_vars, claim_log, users, groups, referral_settings, referral_clicks, note_clicks,
                    poll_responses, REMINDER_TASKS, group_out, reminder_out,
                    nEvents,
                    unreferenced_workers, session_reminders >>

(***************************************************************************)
(* Groups and notification routing.                                        *)
(***************************************************************************)
\* A message in a group chat: save_group.
track_group_presence(g) ==
    /\ nEvents < MaxEvents
    /\ groups' = save_group(groups, g)
    /\ nEvents' = nEvents + 1
    /\ UNCHANGED << menu_vars, sink_vars, fn_vars, sheet_vars, claim_log, users, referral_settings, referral_clicks, note_clicks,
                    poll_responses, REMINDER_TASKS, chat, group_out, reminder_out,
                    task,
                    unreferenced_workers, device_done, session_reminders >>

\* A "set_group:<id>" button of the group menu, which lists the rows of groups.
handle_group_selection(t, u, group_id) ==
    /\ Free(t)
    /\ group_id \in groups
    /\ users' = upsert_user(users, u)
    /\ task' = [task EXCEPT ![t] =
                  [IdleTask EXCEPT !.kind = "group", !.user = u, !.pc = "grp_set",
                                   !.group = Some(group_id)]]
    /\ nEvents' = nEvents + 1
    /\ UNCHANGED << menu_vars, sink_vars, fn_vars, sheet_vars, claim_log, groups, referral_settings, referral_clicks, note_clicks,
                    poll_responses, REMINDER_TASKS, chat, group_out, reminder_out,
                    unreferenced_workers, device_done, session_reminders >>

\* await set_user_group(...), then the dashboard is rendered again.
GroupSet(t) ==
    /\ At(t, "grp_set")
    /\ referral_settings' = set_user_group(referral_settings, task[t].user,
                                           Val(task[t].group))
    /\ Finish(t)
    /\ UNCHANGED << menu_vars, sink_vars, fn_vars, sheet_vars, claim_log, users, groups, referral_clicks, note_clicks, poll_responses,
                    REMINDER_TASKS, chat, group_out, reminder_out, nEvents,
                    unreferenced_workers, device_done, session_reminders >>

(***************************************************************************)
(* reminder_worker.                                                        *)
(***************************************************************************)
\* The wake-up of a worker that finds the reminder never due.
ReminderWake_never_due(u) ==
    /\ REMINDER_TASKS[u] = "sleep"
    /\ REMINDER_TASKS' = [REMINDER_TASKS EXCEPT ![u] = "done"]
    /\ UNCHANGED << menu_vars, sink_vars, fn_vars, sheet_vars, claim_log, users, groups, referral_settings, referral_clicks, note_clicks,
                    poll_responses, chat, group_out, reminder_out, task, nEvents,
                    unreferenced_workers, device_done, session_reminders >>

\* The wake-up with the device answer left out of the check.
ReminderWake_ignores_device(u) ==
    /\ REMINDER_TASKS[u] = "sleep"
    /\ LET row == fetch_poll_response(poll_responses, u)
       IN  REMINDER_TASKS' = [REMINDER_TASKS EXCEPT ![u] =
               IF row = None THEN "done"
               ELSE IF Val(row).reminder_sent THEN "done"
               ELSE "text"]
    /\ UNCHANGED << menu_vars, sink_vars, fn_vars, sheet_vars, claim_log, users, groups, referral_settings, referral_clicks, note_clicks,
                    poll_responses, chat, group_out, reminder_out, task, nEvents,
                    unreferenced_workers, device_done, session_reminders >>

\* The sleep is over: the poll row is fetched and checked.
ReminderWake(u) ==
    /\ REMINDER_TASKS[u] = "sleep"
    /\ LET row == fetch_poll_response(poll_responses, u)
       IN  REMINDER_TASKS' = [REMINDER_TASKS EXCEPT ![u] =
               IF row = None THEN "done"
               ELSE IF TruthyStr(Val(row).device) \/ Val(row).reminder_sent THEN "done"
               ELSE "text"]
    /\ UNCHANGED << menu_vars, sink_vars, fn_vars, sheet_vars, claim_log, users, groups, referral_settings, referral_clicks, note_clicks,
                    poll_responses, chat, group_out, reminder_out, task, nEvents,
                    unreferenced_workers, device_done, session_reminders >>

\* text = await get_reminder_text()
ReminderText(u) ==
    /\ REMINDER_TASKS[u] = "text"
    /\ REMINDER_TASKS' = [REMINDER_TASKS EXCEPT ![u] = "send"]
    /\ UNCHANGED << menu_vars, sink_vars, fn_vars, sheet_vars, claim_log, users, groups, referral_settings, referral_clicks, note_clicks,
                    poll_responses, chat, group_out, reminder_out, task, nEvents,
                    unreferenced_workers, device_done, session_reminders >>

\* await bot.send_message(chat_id, text, ...)
ReminderSend(u) ==
    /\ REMINDER_TASKS[u] = "send"
    /\ reminder_out' = [reminder_out EXCEPT ![u] = @ + 1]
    /\ session_reminders' = [session_reminders EXCEPT ![u] = @ + 1]
    /\ REMINDER_TASKS' = [REMINDER_TASKS EXCEPT ![u] = "mark"]
    /\ UNCHANGED << menu_vars, sink_vars, fn_vars, sheet_vars, claim_log, users, groups, referral_settings, referral_clicks, note_clicks,
                    poll_responses, chat, group_out, task, nEvents,
                    unreferenced_workers, device_done >>

\* await mark_reminder_sent(user_id)
ReminderMark(u) ==
    /\ REMINDER_TASKS[u] = "mark"
    /\ poll_responses' = mark_reminder_sent(poll_responses, u)
    /\ REMINDER_TASKS' = [REMINDER_TASKS EXCEPT ![u] = "done"]
    /\ UNCHANGED << menu_vars, sink_vars, fn_vars, sheet_vars, claim_log, users, groups, referral_settings, referral_clicks, note_clicks,
                    chat, group_out, reminder_out, task, nEvents,
                    unreferenced_workers, device_done, session_reminders >>

(***************************************************************************)
(* The specification.                                                      *)
(***************************************************************************)
Next ==
    \/ \E t \in Tasks, u \in Leads, text \in StartTexts : cmd_start(t, u, text)
    \/ \E t \in Tasks : ReferralClick(t)
    \/ \E t \in Tasks : ReferralNoteClick(t)
    \/ \E t \in Tasks : ReferralEnsure(t)
    \/ \E t \in Tasks : StartEnsure(t)
    \/ \E t \in Tasks : StartFetch(t)
    \/ \E t \in Tasks : StartReset(t)
    \/ \E t \in Tasks : StartSchedule(t)
    \/ \E t \in Tasks : StartCancel(t)
    \/ \E t \in Tasks : StartReply(t)
    \/ \E u \in Leads : cmd_poll(u)
    \/ \E u \in Leads : handle_poll_callback(u)
    \/ \E t \in Tasks, u \in Leads, k \in AgeKeys : handle_age_choice(t, u, k)
    \/ \E t \in Tasks, u \in Leads, k \in IncomeKeys : handle_income_choice(t, u, k)
    \/ \E t \in Tasks, u \in Leads, k \in DeviceKeys : handle_device_choice(t, u, k)
    \/ \E t \in Tasks : UpdateGetReferrer(t)
    \/ \E t \in Tasks : UpdateEnsure(t)
    \/ \E t \in Tasks : UpdateStatement(t)
    \/ \E t \in Tasks : AgeReply(t)
    \/ \E t \in Tasks : IncomeReply(t)
    \/ \E t \in Tasks : DeviceCancel(t)
    \/ \E t \in Tasks : DeviceMarkReminder(t)
    \/ \E t \in Tasks : DeviceReply(t)
    \/ \E t \in Tasks : NotifyFetch(t)
    \/ \E t \in Tasks : NotifyCheck(t)
    \/ \E t \in Tasks : NotifyGroup(t)
    \/ \E t \in Tasks : NotifySend(t)
    \/ \E t \in Tasks : NotifyMark(t)
    \/ \E t \in Tasks : DevicePrompt(t)
    \/ \E g \in GroupIds : track_group_presence(g)
    \/ \E t \in Tasks, u \in Referrers, g \in GroupIds : handle_group_selection(t, u, g)
    \/ \E t \in Tasks : GroupSet(t)
    \/ \E u \in Users : ReminderWake(u)
    \/ \E u \in Users : ReminderText(u)
    \/ \E u \in Users : ReminderSend(u)
    \/ \E u \in Users : ReminderMark(u)

Spec == Init /\ [][Next]_vars

\* The event loop runs a reminder task that can take a step: the sleep ends,
\* the awaited reads, the send and the write complete.
ReminderFairness ==
    \A u \in Users : /\ WF_vars(ReminderWake(u))
                     /\ WF_vars(ReminderText(u))
                     /\ WF_vars(ReminderSend(u))
                     /\ WF_vars(ReminderMark(u))

SpecFair == Init /\ [][Next]_vars /\ ReminderFairness

\* The same program started on the empty store.
SpecFromEmpty == InitEmpty /\ [][Next]_vars

(***************************************************************************)
(* Vocabulary of the properties.                                           *)
(***************************************************************************)
\* Handler task t takes the step it was waiting to take at pc.
Stepped(t, pc) == task[t].pc = pc /\ task'[t].pc # pc

\* The lead summaries sent to groups about user u so far.
GroupMessagesAbout(u) == { i \in DOMAIN group_out : group_out[i].user_id = u }

\* Two device answers of the same user are being handled at the same time.
ConcurrentDeviceAnswers(t1, t2) ==
    /\ t1 # t2
    /\ task[t1].kind = "device"
    /\ task[t2].kind = "device"
    /\ task[t1].user = task[t2].user

(***************************************************************************)
(* C1.  When two device answers of one user are handled concurrently, at   *)
(* most one of the two handlers sends the group notification: never have   *)
(* both handlers, while both are still in flight, sent their message.      *)
(***************************************************************************)
C1_ConcurrentAnswersNotifyOnce ==
    \A t1, t2 \in Tasks :
        ConcurrentDeviceAnswers(t1, t2)
            => ~(task[t1].pc = "ntf_mark" /\ task[t2].pc = "ntf_mark")

(***************************************************************************)
(* C2.  Two notification claims made for a user one after the other, with  *)
(* no poll update in between: the first having succeeded (its handler is   *)
(* back from notify_group_about_poll, and its outcome is still the first   *)
(* of the outcomes since the last update), the second fails, returns       *)
(* without a message and changes no stored state.                          *)
(***************************************************************************)
C2_SecondClaimFails ==
    [][ \A t \in Tasks :
          (/\ Stepped(t, "ntf_check")
           /\ claim_log[task[t].user] # << >>
           /\ claim_log[task[t].user][1]
           /\ \E s \in Tasks : /\ ConcurrentDeviceAnswers(s, t)
                               /\ task[s].pc = "dev_prompt"
                               /\ task[s].claimed)
              => /\ ~task'[t].claimed
                 /\ task'[t].pc = "dev_prompt"
                 /\ poll_responses' = poll_responses
                 /\ group_out' = group_out ]_vars

(***************************************************************************)
(* C3.  update_poll_response called with the device field only leaves a    *)
(* notified flag that is true as it is.                                    *)
(***************************************************************************)
C3_DeviceUpdateKeepsNotified ==
    [][ \A t \in Tasks :
          (Stepped(t, "upr_update") /\ task[t].kind = "device"
             /\ was_notified(poll_responses, task[t].user))
              => was_notified(poll_responses', task[t].user) ]_vars

(***************************************************************************)
(* C4.  Each lead produces at most one group notification, whatever the    *)
(* sequence of events.                                                     *)
(***************************************************************************)
C4_OneNotificationPerLead ==
    \A u \in Users : Cardinality(GroupMessagesAbout(u)) <= 1

C6_AgeIncomeUpdateResetsNotified ==
    [][ \A t \in Tasks :
          (Stepped(t, "upr_update") /\ task[t].kind \in {"age", "income"})
              => /\ poll_responses'[task[t].user] # None
                 /\ ~Val(poll_responses'[task[t].user]).notified
                 /\ task[t].kind = "age"
                       => Val(poll_responses'[task[t].user]).age = task[t].val
                 /\ task[t].kind = "income"
                       => Val(poll_responses'[task[t].user]).income = task[t].val ]_vars

\* An income update has been made on a row whose notified flag had been set.
C6_Witness ==
    \E t \in Tasks :
        /\ task[t].kind = "income"
        /\ task[t].pc = "income_reply"
        /\ GroupMessagesAbout(task[t].user) # {}
        /\ claim_log[task[t].user] = << >>
        /\ ~was_notified(poll_responses, task[t].user)

(***************************************************************************)
(* C7.  A notification attempt that finds no destination group for the     *)
(* referrer still consumes the claim: notified is true after it.           *)
(***************************************************************************)
C7_NoGroupConsumesClaim ==
    [][ \A t \in Tasks :
          (Stepped(t, "ntf_group")
             /\ get_user_group(referral_settings, groups,
                               Val(Val(task[t].row).referrer_id)) = None)
              => was_notified(poll_responses', task[t].user) ]_vars

(***************************************************************************)
(* C8 as stated.  A group notification is sent only about a user whose     *)
(* poll row has a device answer and a referrer, by a handler whose claim   *)
(* succeeded, and it goes to the group the referrer has configured at the  *)
(* moment it is sent.                                                      *)
(***************************************************************************)
C8_SentToCurrentGroup ==
    [][ \A t \in Tasks :
          Stepped(t, "ntf_send")
              => LET u   == task[t].user
                     row == Val(poll_responses[u])
                 IN  /\ task[t].claimed
                     /\ TruthyStr(row.device)
                     /\ TruthyInt(row.referrer_id)
                     /\ Len(group_out') = Len(group_out) + 1
                     /\ group_out'[Len(group_out')].user_id = u
                     /\ Some(group_out'[Len(group_out')].chat_id)
                           = get_user_group(referral_settings, groups,
                                            Val(row.referrer_id)) ]_vars

(***************************************************************************)
(* C8 as amended.  A group notification is sent only by the step that ends *)
(* a notification attempt, about a user whose poll row has a device answer *)
(* and a referrer, by a handler whose claim succeeded; it goes to the      *)
(* group the attempt looked up, which is the group the referrer had        *)
(* configured at the moment of the lookup (the referrer may have chosen    *)
(* another group since).  No message is ever about a user without a        *)
(* referrer.                                                               *)
(***************************************************************************)
C8_SentToGroupLookedUp ==
    [][ /\ \A t \in Tasks :
             (Stepped(t, "ntf_group") /\ task'[t].pc = "ntf_send")
                 => LET ref == Val(Val(task[t].row).referrer_id)
                    IN  /\ task[t].claimed
                        /\ referral_settings[ref] # None
                        /\ task'[t].group = referral_settings[ref]
                        /\ Val(referral_settings[ref]) \in groups
        /\ \A t \in Tasks :
             Stepped(t, "ntf_send")
                 => LET u   == task[t].user
                        row == Val(poll_responses[u])
                    IN  /\ task[t].claimed
                        /\ TruthyStr(row.device)
                        /\ TruthyInt(row.referrer_id)
                        /\ group_out' = Append(group_out,
                               [chat_id |-> Val(task[t].group), user_id |-> u,
                                referrer_id |-> Val(row.referrer_id)])
        /\ group_out' # group_out => \E t \in Tasks : Stepped(t, "ntf_send")
        /\ \A i \in DOMAIN group_out' :
             LET m == group_out'[i]
             IN  /\ poll_responses'[m.user_id] # None
                 /\ Val(poll_responses'[m.user_id]).referrer_id = Some(m.referrer_id)
                 /\ m.referrer_id # 0 ]_vars

\* A lead summary has been sent to the group its referrer has configured.
C8_Witness ==
    \E t \in Tasks :
        /\ task[t].pc = "ntf_mark"
        /\ group_out # << >>
        /\ group_out[Len(group_out)].user_id = task[t].user
        /\ Some(group_out[Len(group_out)].chat_id)
              = referral_settings[group_out[Len(group_out)].referrer_id]

(***************************************************************************)
(* C9.  Recording the same referral click twice inserts one row: the call  *)
(* reports true when the (referrer, referred user, note) triple is new,    *)
(* and false, leaving the table unchanged, when it is there already.       *)
(***************************************************************************)
C9_ClickReportsInserted ==
    [][ \A t \in Tasks :
          Stepped(t, "ref_click")
              => LET row == [referrer_id |-> Val(task[t].ref),
                             referred_user_id |-> task[t].user,
                             note_id |-> task[t].note]
                 IN  IF row \in referral_clicks
                     THEN /\ task'[t].ret = Some(FALSE)
                          /\ referral_clicks' = referral_clicks
                     ELSE /\ task'[t].ret = Some(TRUE)
                          /\ row \in referral_clicks' ]_vars

(***************************************************************************)
(* C10.  A referral click of the same (referrer, referred user) pair with  *)
(* another note id is a new event: after it is recorded the table holds a  *)
(* row for each of the notes.                                              *)
(***************************************************************************)
C10_OtherNoteIsNewClick ==
    [][ \A t \in Tasks :
          Stepped(t, "ref_click")
              => [referrer_id |-> Val(task[t].ref),
                  referred_user_id |-> task[t].user,
                  note_id |-> task[t].note] \in referral_clicks' ]_vars

(***************************************************************************)
(* C11.  First attribution wins: once a user's poll row holds a non-null   *)
(* referrer, no step of any handler - a /start with another referrer's     *)
(* link, a poll update, a /start handled at the same time - changes it.    *)
(***************************************************************************)
C11_FirstAttributionWins ==
    [][ \A u \in Users :
          (poll_responses[u] # None /\ Val(poll_responses[u]).referrer_id # None)
              => /\ poll_responses'[u] # None
                 /\ Val(poll_responses'[u]).referrer_id
                       = Val(poll_responses[u]).referrer_id ]_vars

\* A /start with the link of referrer 3 has recorded its click and ensured
\* the poll row of a lead who is attributed to referrer 1.
C11_Witness ==
    \E t \in Tasks :
        /\ task[t].kind = "start"
        /\ task[t].ref = Some(3)
        /\ task[t].pc = "start_ensure"
        /\ \E r \in referral_clicks :
              r.referrer_id = 3 /\ r.referred_user_id = task[t].user
        /\ poll_responses[task[t].user] # None
        /\ Val(poll_responses[task[t].user]).referrer_id = Some(1)

\* The lead has no attribution yet: no referral click and no referrer on the
\* poll row.
NoPriorAttribution(u) ==
    /\ \A r \in referral_clicks : r.referred_user_id # u
    /\ poll_responses[u] = None \/ Val(poll_responses[u]).referrer_id = None

(***************************************************************************)
(* C12.  A /start with payload ref_R_note_N from a user U other than R,    *)
(* who has no prior attribution: the payload is read as referrer R and     *)
(* note N, the click (R, U, N) is recorded, the poll row is left with      *)
(* referrer R and note N, and the rest of the handler keeps both.          *)
(***************************************************************************)
C12_StartWithNoteAttributes ==
    [][ \A t \in Tasks :
          /\ \A u \in Leads :
               /\ cmd_start(t, u, StartWord \o << " " >> \o PayloadRef1 \o NoteOne)
                     => /\ task'[t].pc = "ref_click"
                        /\ task'[t].ref = Some(1)
                        /\ task'[t].note = Some(1)
               /\ cmd_start(t, u, StartWord \o << " " >> \o PayloadRef1 \o NoteTwo)
                     => /\ task'[t].pc = "ref_click"
                        /\ task'[t].ref = Some(1)
                        /\ task'[t].note = Some(2)
          /\ (Stepped(t, "ref_click") /\ task[t].note # None
                /\ NoPriorAttribution(task[t].user))
                => /\ referral_clicks' = referral_clicks \cup
                         {[referrer_id |-> Val(task[t].ref),
                           referred_user_id |-> task[t].user,
                           note_id |-> task[t].note]}
                   /\ task'[t].pc = "ref_note_click"
          /\ (Stepped(t, "ref_note_click"))
                => /\ note_clicks' = Append(note_clicks,
                         [note_id |-> Val(task[t].note), user_id |-> task[t].user])
                   /\ task'[t].pc = "ref_ensure"
          /\ (Stepped(t, "ref_ensure") /\ task[t].note # None
                /\ (poll_responses[task[t].user] = None
                      \/ Val(poll_responses[task[t].user]).referrer_id = None))
                => /\ poll_responses'[task[t].user] # None
                   /\ Val(poll_responses'[task[t].user]).referrer_id = task[t].ref
                   /\ Val(poll_responses'[task[t].user]).note_id = task[t].note
          /\ (task[t].kind = "start" /\ task'[t] # task[t]
                /\ task[t].pc \in {"start_ensure", "start_fetch", "start_reset",
                                   "start_schedule", "start_cancel", "start_reply"}
                /\ poll_responses[task[t].user] # None)
                => /\ poll_responses'[task[t].user] # None
                   /\ Val(poll_responses'[task[t].user]).referrer_id
                         = Val(poll_responses[task[t].user]).referrer_id
                   /\ Val(poll_responses'[task[t].user]).note_id
                         = Val(poll_responses[task[t].user]).note_id ]_vars

\* The /start ref_1_note_2 of a lead without prior attribution has been
\* handled to its last step: the click (1, lead, 2) is the lead's only click
\* and the poll row carries referrer 1 and note 2.
C12_Witness ==
    \E t \in Tasks :
        /\ task[t].kind = "start"
        /\ task[t].payload = Some(PayloadRef1 \o NoteTwo)
        /\ task[t].pc = "start_reply"
        /\ { r \in referral_clicks : r.referred_user_id = task[t].user }
              = {[referrer_id |-> 1, referred_user_id |-> task[t].user,
                  note_id |-> Some(2)]}
        /\ poll_responses[task[t].user] # None
        /\ Val(poll_responses[task[t].user]).referrer_id = Some(1)
        /\ Val(poll_responses[task[t].user]).note_id = Some(2)

\* A step leaves the attribution of user u as it
\* is: no referral click, no note click, and the referrer and the note of the
\* poll row unchanged (none on a row that the step creates).
StartStepRecordsNothing(u) ==
    /\ referral_clicks' = referral_clicks
    /\ note_clicks' = note_clicks
    /\ poll_responses'[u] # None =>
          IF poll_responses[u] = None
          THEN /\ Val(poll_responses'[u]).referrer_id = None
               /\ Val(poll_responses'[u]).note_id = None
          ELSE /\ Val(poll_responses'[u]).referrer_id = Val(poll_responses[u]).referrer_id
               /\ Val(poll_responses'[u]).note_id = Val(poll_responses[u]).note_id

ReminderDue(u) ==
    /\ poll_responses[u] # None
    /\ ~TruthyStr(Val(poll_responses[u]).device)
    /\ ~Val(poll_responses[u]).reminder_sent

(***************************************************************************)
(* C14.  A reminder task that wakes decides on the poll row as it is at    *)
(* that moment: it goes on to send only if the device question is          *)
(* unanswered and reminder_sent is false, and otherwise finishes, having   *)
(* sent nothing and changed nothing.  A reminder message is sent only by a *)
(* task that has passed that check, one message at a time, and the step    *)
(* the task takes after the send sets reminder_sent to true.               *)
(***************************************************************************)
C14_ReminderOnlyWhenDue ==
    [][ \A u \in Users :
          /\ (REMINDER_TASKS[u] = "sleep" /\ REMINDER_TASKS'[u] \notin {"sleep", "absent"})
                => /\ REMINDER_TASKS'[u] = IF ReminderDue(u) THEN "text" ELSE "done"
                   /\ poll_responses' = poll_responses
                   /\ reminder_out' = reminder_out
          /\ REMINDER_TASKS'[u] = "text" => REMINDER_TASKS[u] \in {"sleep", "text"}
          /\ REMINDER_TASKS'[u] = "send" => REMINDER_TASKS[u] \in {"text", "send"}
          /\ REMINDER_TASKS'[u] = "mark" => REMINDER_TASKS[u] \in {"send", "mark"}
          /\ (REMINDER_TASKS[u] = "text" /\ REMINDER_TASKS'[u] = "send")
                => /\ poll_responses' = poll_responses
                   /\ reminder_out' = reminder_out
          /\ reminder_out'[u] # reminder_out[u]
                => /\ REMINDER_TASKS[u] = "send"
                   /\ REMINDER_TASKS'[u] = "mark"
                   /\ reminder_out'[u] = reminder_out[u] + 1
                   /\ poll_responses' = poll_responses
          /\ (REMINDER_TASKS[u] = "mark" /\ REMINDER_TASKS'[u] = "done")
                => /\ poll_responses'[u] # None
                   /\ Val(poll_responses'[u]).reminder_sent
                   /\ reminder_out' = reminder_out ]_vars

\* A reminder task has run to its end for a lead who has not answered the
\* device question: one reminder has gone out and reminder_sent is set.
C14_Witness ==
    \E u \in Leads :
        /\ REMINDER_TASKS[u] = "done"
        /\ reminder_out[u] = 1
        /\ poll_responses[u] # None
        /\ ~TruthyStr(Val(poll_responses[u]).device)
        /\ Val(poll_responses[u]).reminder_sent

\* The reminder tasks of user u that are outstanding: the one REMINDER_TASKS
\* holds, if it is neither finished nor cancelled, and those that run on
\* without a reference.
OutstandingReminders(u) ==
    (IF REMINDER_TASKS[u] \in Outstanding THEN 1 ELSE 0) + unreferenced_workers[u]

(***************************************************************************)
(* C15.  A user has at most one outstanding reminder task after every      *)
(* step, whatever the interleaving of /start handlers, device answers and  *)
(* worker steps; scheduling leaves exactly the new task, asleep, and no    *)
(* earlier task running.                                                   *)
(***************************************************************************)
C15_OneOutstandingReminder ==
    [][ /\ \A u \in Users : OutstandingReminders(u)' <= 1
        /\ \A t \in Tasks :
             Stepped(t, "start_schedule")
                => /\ REMINDER_TASKS'[task[t].user] = "sleep"
                   /\ unreferenced_workers' = unreferenced_workers
                   /\ OutstandingReminders(task[t].user)' = 1 ]_vars

\* A /start has just scheduled a reminder for a lead whose previous reminder
\* task was still outstanding (the lead was in the funnel with the task
\* asleep, nothing has been sent and no device answer was handled).
C15_Witness ==
    \E t \in Tasks :
        /\ task[t].kind = "start"
        /\ task[t].pc = "start_reply"
        /\ \A s \in Tasks \ {t} : task[s].pc = "idle"
        /\ nEvents = 1
        /\ REMINDER_TASKS[task[t].user] = "sleep"
        /\ reminder_out[task[t].user] = 0
        /\ poll_responses[task[t].user] # None
        /\ Val(poll_responses[task[t].user]).age # None
        /\ ~TruthyStr(Val(poll_responses[task[t].user]).device)

(***************************************************************************)
(* C16.  Once a handle_device_choice of a user has returned, no reminder   *)
(* message is sent to that user any more, whatever /start handlers and     *)
(* reminder tasks follow or were in progress.                              *)
(***************************************************************************)
C16_NoReminderAfterDevice ==
    [][ \A u \in Users :
          device_done[u] => reminder_out'[u] = reminder_out[u] ]_vars

\* After the lead's device answer was handled, a reminder task scheduled by a
\* /start handler that was in progress has woken and finished without
\* sending anything.
C16_Witness ==
    \E u \in Leads :
        /\ device_done[u]
        /\ REMINDER_TASKS[u] = "done"
        /\ reminder_out[u] = 0
        /\ \E t \in Tasks : task[t].kind = "start" /\ task[t].user = u
                              /\ task[t].pc = "start_reply"

\* A /start handler of lead u has just scheduled the reminder of a session
\* in which nothing has been sent and the reminder is due, no other /start
\* or device answer of the lead is being handled, and no further event
\* arrives.
StartedAndSilent(u) ==
    /\ nEvents = MaxEvents
    /\ REMINDER_TASKS[u] = "sleep"
    /\ session_reminders[u] = 0
    /\ ReminderDue(u)
    /\ \E t \in Tasks : /\ task[t].kind = "start" /\ task[t].user = u
                        /\ task[t].pc = "start_reply"
                        /\ \A s \in Tasks \ {t} :
                              task[s].user = u => task[s].kind \notin {"start", "device"}

\* The reminder of the session has been sent, once, and marked.
RemindedOnce(u) ==
    /\ REMINDER_TASKS[u] = "done"
    /\ session_reminders[u] = 1
    /\ poll_responses[u] # None
    /\ Val(poll_responses[u]).reminder_sent

C18_CancelSparesCheckedWorker ==
    [][ \A u \in Users :
          REMINDER_TASKS[u] \in {"text", "send", "mark"}
              => REMINDER_TASKS'[u] \in {"text", "send", "mark", "done"} ]_vars

(***************************************************************************)
(* C19.  Between two consecutive /start commands of a user at most one     *)
(* reminder message is sent to the user: the number of reminders sent      *)
(* since the user's last /start arrived never exceeds one.                 *)
(***************************************************************************)
C19_OneReminderPerSession ==
    \A u \in Users : session_reminders[u] <= 1

\* The poll row of user u shows no device answer (or there is no row).
DeviceUnanswered(u) ==
    poll_responses[u] = None \/ ~TruthyStr(Val(poll_responses[u]).device)

(***************************************************************************)
(* C20 as stated.  Whenever a user with no device answer enters the funnel *)
(* by /start, by /poll or by the take-survey button, a pending reminder    *)
(* task exists for the user when the entry handler has finished.           *)
(***************************************************************************)
C20_FunnelEntrySchedulesReminder ==
    [][ /\ \A u \in Leads :
             ((cmd_poll(u) \/ handle_poll_callback(u)) /\ DeviceUnanswered(u)')
                 => REMINDER_TASKS'[u] \in Outstanding
        /\ \A t \in Tasks :
             (Stepped(t, "start_reply") /\ DeviceUnanswered(task[t].user)')
                 => REMINDER_TASKS'[task[t].user] \in Outstanding ]_vars

(***************************************************************************)
(* C20 as amended.  A /start handler that finds no device answer on the    *)
(* user's poll row resets reminder_sent and schedules a new reminder task, *)
(* which is pending right after the scheduling.  /poll and the take-survey *)
(* button schedule nothing: they leave the reminder tasks as they are.     *)
(***************************************************************************)
C20_StartSchedulesReminder ==
    [][ /\ \A t \in Tasks :
             /\ (Stepped(t, "start_fetch") /\ DeviceUnanswered(task[t].user))
                   => task'[t].pc = "start_reset"
             /\ Stepped(t, "start_reset")
                   => /\ task'[t].pc = "start_schedule"
                      /\ poll_responses'[task[t].user] # None
                            => ~Val(poll_responses'[task[t].user]).reminder_sent
             /\ Stepped(t, "start_schedule")
                   => /\ task'[t].pc = "start_reply"
                      /\ REMINDER_TASKS'[task[t].user] = "sleep"
        /\ \A u \in Leads :
             (cmd_poll(u) \/ handle_poll_callback(u))
                 => /\ REMINDER_TASKS' = REMINDER_TASKS
                    /\ unreferenced_workers' = unreferenced_workers ]_vars

\* A lead has come in by /start and gone on to the age question by /poll or
\* the take-survey button; every handler has returned and the reminder task
\* that /start scheduled is still pending.
C20_Witness ==
    \E u \in Leads :
        /\ REMINDER_TASKS[u] = "sleep"
        /\ nEvents = MaxEvents
        /\ \A t \in Tasks : task[t].pc = "idle"
        /\ {"start_poll", "age"} \subseteq chat[u]
        /\ poll_responses[u] # None
        /\ Val(poll_responses[u]).age = None
        /\ DeviceUnanswered(u)


(***************************************************************************)
(* The group menu, the notes menu, the reminder settings and the two       *)
(* input-capture side-states.  The people who press these buttons have     *)
(* sent /ref before, so each of them has a users row.  A handler is taken  *)
(* in one step, and the dispatcher hands a message to the first handler    *)
(* whose filter admits it.                                                 *)
(***************************************************************************)
\* Inbound menu events in one run.
MaxMenuEvents == 4

\* from_user.username as an event carries it: an account may have no
\* username and may take one between two events.
Usernames == {None, Some("ann")}

UpperLetters == << "A", "B", "C", "D", "E", "F", "G", "H", "I", "J", "K", "L", "M",
                   "N", "O", "P", "Q", "R", "S", "T", "U", "V", "W", "X", "Y", "Z" >>
LowerLetters == << "a", "b", "c", "d", "e", "f", "g", "h", "i", "j", "k", "l", "m",
                   "n", "o", "p", "q", "r", "s", "t", "u", "v", "w", "x", "y", "z" >>

\* str.lower
Lower(s) ==
    [i \in 1..Len(s) |->
        IF \E k \in 1..26 : UpperLetters[k] = s[i]
        THEN LowerLetters[CHOOSE k \in 1..26 : UpperLetters[k] = s[i]]
        ELSE s[i]]

\* The part of str.partition(":") after the separator.
AfterColon(data) ==
    LET at == Find(data, << ":" >>)
    IN  IF at = 0 THEN << >> ELSE SubSeq(data, at + 1, Len(data))

Cancel == << "/", "c", "a", "n", "c", "e", "l" >>
CancelShout == << " ", "/", "C", "A", "N", "C", "E", "L", " " >>
OtherCommand == << "/", "r", "e", "f" >>
PlainText == << "S", "a", "l", "e" >>
Dash == << "-" >>
Blank == << " " >>

\* The texts of the messages sent to the bot.
MessageTexts == {Cancel, CancelShout, OtherCommand, PlainText, Dash, Blank}

\* The title a note gets when the title typed was empty.
UntitledNote == << "B", "e", "z", " ", "n", "a", "z", "v", "y" >>

SetGroupPrefix == << "s", "e", "t", "_", "g", "r", "o", "u", "p", ":" >>
NoteViewPrefix == << "n", "o", "t", "e", "_", "v", "i", "e", "w", ":" >>
DeleteNotePrefix == << "d", "e", "l", "e", "t", "e", "_", "n", "o", "t", "e", ":" >>
CopyNoteRefPrefix == << "c", "o", "p", "y", "_", "n", "o", "t", "e", "_", "r", "e", "f", ":" >>

\* The integer fields of well-formed buttons, and fields int() refuses.
GroupFields == {<< "1", "0" >>, << "2", "0" >>}
NoteFields == {<< "1" >>, << "2" >>}
BadFields == {<< "x" >>, << >>}

\* callback.data as it arrives for each of the four handlers.
SetGroupData == { SetGroupPrefix \o f : f \in GroupFields \cup BadFields }
NoteViewData == { NoteViewPrefix \o f : f \in NoteFields \cup BadFields }
DeleteNoteData == { DeleteNotePrefix \o f : f \in NoteFields \cup BadFields }
CopyNoteRefData == { CopyNoteRefPrefix \o f : f \in NoteFields \cup BadFields }

\* The texts of the show_alert answers.
AlertGroupFailed == "Ne vdalosya obraty hrupu"
AlertViewFailed == "Ne vdalosya vidkryty prymitku"
AlertDeleteFailed == "Ne vdalosya vydalyty prymitku"
AlertLinkFailed == "Ne vdalosya sformuvaty posylannya"
AlertNoAccess == "Nemaye dostupu"
AlertOtherGroup == "Tsya prymitka nalezhyt inshiy hrupi"
AlertChooseGroup == "Spochatku oberit hrupu"
AlertNoteLink == "Posylannya dlya prymitky"

\* upsert_user on the username column.
upsert_user_username(tbl, user_id, username) == [tbl EXCEPT ![user_id] = username]

\* fetch_note: the row, or None.
fetch_note(tbl, note_id) ==
    IF \E n \in tbl : n.id = note_id
    THEN Some(CHOOSE n \in tbl : n.id = note_id)
    ELSE None

\* The INSERT as it was before the notes table got its group_id column: the
\* column of the new row is left NULL.
create_note_without_group(tbl, seq, owner_id, group_id, title, url) ==
    tbl \cup {[id |-> seq + 1, owner_id |-> owner_id, group_id |-> None,
               title |-> title, url |-> url]}

\* create_note: the INSERT, the row taking the next AUTOINCREMENT id.  The
\* group_id column is nullable, so a row holds it as an optional value.
create_note(tbl, seq, owner_id, group_id, title, url) ==
    tbl \cup {[id |-> seq + 1, owner_id |-> owner_id, group_id |-> Some(group_id),
               title |-> title, url |-> url]}

\* delete_note: DELETE ... WHERE id = ? AND owner_id = ?
delete_note(tbl, owner_id, note_id) ==
    { n \in tbl : ~(n.id = note_id /\ n.owner_id = owner_id) }

\* set_reminder_text
set_reminder_text(new_text) == new_text

\* The filters of the two message handlers that are registered first.
PendingNoteCreationFilter(u) == NOTE_CREATION_STATE[u] # None

ReminderEditFilter(u) == u \in REMINDER_EDITORS

\* The menus after /ref from every user: two groups known, the referrer has
\* chosen the first group or none, nobody has a username yet.
InitMenus ==
    /\ users = Users
    /\ groups = {10, 20}
    /\ \E chosen \in BOOLEAN :
          referral_settings = [u \in Users |-> IF chosen /\ u = 1 THEN Some(10) ELSE None]
    /\ referral_clicks = {}
    /\ note_clicks = << >>
    /\ poll_responses = [u \in Users |-> None]
    /\ REMINDER_TASKS = [u \in Users |-> "absent"]
    /\ chat = [u \in Users |-> {}]
    /\ group_out = << >>
    /\ reminder_out = [u \in Users |-> 0]
    /\ claim_log = [u \in Users |-> << >>]
    /\ task = [t \in Tasks |-> IdleTask]
    /\ nEvents = 0
    /\ unreferenced_workers = [u \in Users |-> 0]
    /\ device_done = [u \in Users |-> FALSE]
    /\ session_reminders = [u \in Users |-> 0]
    /\ MenusAtRest
    /\ SinkAtRest
    /\ FnAtRest
    /\ SheetsAtRest

\* One more menu event is dispatched.
MenuEvent ==
    /\ nEvents < MaxMenuEvents
    /\ nEvents' = nEvents + 1

\* await upsert_user(callback.from_user)
UpsertSender(u, username) ==
    /\ users' = upsert_user(users, u)
    /\ user_names' = upsert_user_username(user_names, u, username)

\* await callback.answer(text, show_alert=True)
Alert(u, text) == alerts' = [alerts EXCEPT ![u] = Append(@, text)]

\* handle_group_selection with a field that int() refuses taken as group 0.
handle_group_selection_callback_unguarded(u, username, data) ==
    /\ MenuEvent
    /\ UpsertSender(u, username)
    /\ LET group_id == ParseInt(AfterColon(data))
       IN  /\ referral_settings' =
                  set_user_group(referral_settings, u,
                                 IF group_id = None THEN 0 ELSE Val(group_id))
           /\ IF group_id = None THEN Alert(u, AlertGroupFailed) ELSE UNCHANGED alerts
    /\ UNCHANGED << groups, notes, sqlite_sequence, reminder_settings,
                    NOTE_CREATION_STATE, REMINDER_EDITORS, poll_vars, sink_vars, fn_vars, sheet_vars >>

\* A "set_group:<id>" callback with the field as it arrives.
handle_group_selection_callback(u, username, data) ==
    /\ MenuEvent
    /\ UpsertSender(u, username)
    /\ LET group_id == ParseInt(AfterColon(data))
       IN  IF group_id = None
           THEN /\ Alert(u, AlertGroupFailed)
                /\ UNCHANGED referral_settings
           ELSE /\ referral_settings' = set_user_group(referral_settings, u, Val(group_id))
                /\ UNCHANGED alerts
    /\ UNCHANGED << groups, notes, sqlite_sequence, reminder_settings,
                    NOTE_CREATION_STATE, REMINDER_EDITORS, poll_vars, sink_vars, fn_vars, sheet_vars >>

\* A "note_view:<id>" callback: the notes menu is rendered again.
handle_note_view(u, username, data) ==
    /\ MenuEvent
    /\ UpsertSender(u, username)
    /\ IF ParseInt(AfterColon(data)) = None
       THEN Alert(u, AlertViewFailed)
       ELSE UNCHANGED alerts
    /\ UNCHANGED << groups, referral_settings, notes, sqlite_sequence, reminder_settings,
                    NOTE_CREATION_STATE, REMINDER_EDITORS, poll_vars, sink_vars, fn_vars, sheet_vars >>

\* The "add_note" button.
handle_note_add(u, username) ==
    /\ MenuEvent
    /\ UpsertSender(u, username)
    /\ LET group_info == get_user_group(referral_settings, groups, u)
       IN  IF group_info = None
           THEN /\ Alert(u, AlertChooseGroup)
                /\ UNCHANGED NOTE_CREATION_STATE
           ELSE /\ NOTE_CREATION_STATE' =
                       [NOTE_CREATION_STATE EXCEPT ![u] =
                           Some([step |-> "title", group_id |-> group_info,
                                 title |-> None])]
                /\ UNCHANGED alerts
    /\ UNCHANGED << groups, referral_settings, notes, sqlite_sequence, reminder_settings,
                    REMINDER_EDITORS, poll_vars, sink_vars, fn_vars, sheet_vars >>

\* A "delete_note:<id>" callback.
handle_note_delete(u, username, data) ==
    /\ MenuEvent
    /\ UpsertSender(u, username)
    /\ LET note_id    == ParseInt(AfterColon(data))
           note       == IF note_id = None THEN None ELSE fetch_note(notes, Val(note_id))
           group_info == get_user_group(referral_settings, groups, u)
       IN  IF note_id = None
           THEN Alert(u, AlertDeleteFailed) /\ UNCHANGED notes
           ELSE IF note = None \/ Val(note).owner_id # u
           THEN Alert(u, AlertNoAccess) /\ UNCHANGED notes
           ELSE IF group_info = None \/ Val(note).group_id # group_info
           THEN Alert(u, AlertOtherGroup) /\ UNCHANGED notes
           ELSE /\ notes' = delete_note(notes, u, Val(note_id))
                /\ UNCHANGED alerts
    /\ UNCHANGED << groups, referral_settings, sqlite_sequence, reminder_settings,
                    NOTE_CREATION_STATE, REMINDER_EDITORS, poll_vars, sink_vars, fn_vars, sheet_vars >>

\* A "copy_note_ref:<id>" callback: every outcome is a show_alert answer.
handle_copy_note_ref(u, data) ==
    /\ MenuEvent
    /\ LET note_id == ParseInt(AfterColon(data))
           note    == IF note_id = None THEN None ELSE fetch_note(notes, Val(note_id))
       IN  IF note_id = None
           THEN Alert(u, AlertLinkFailed)
           ELSE IF note = None \/ Val(note).owner_id # u
           THEN Alert(u, AlertNoAccess)
           ELSE Alert(u, AlertNoteLink)
    /\ UNCHANGED << users, user_names, groups, referral_settings, notes, sqlite_sequence,
                    reminder_settings, NOTE_CREATION_STATE, REMINDER_EDITORS,
                    poll_vars, sink_vars, fn_vars, sheet_vars >>

\* The "edit_reminder_text" button.
handle_edit_reminder_text(u, username) ==
    /\ MenuEvent
    /\ UpsertSender(u, username)
    /\ REMINDER_EDITORS' = REMINDER_EDITORS \cup {u}
    /\ UNCHANGED << groups, referral_settings, notes, sqlite_sequence, reminder_settings,
                    NOTE_CREATION_STATE, alerts, poll_vars, sink_vars, fn_vars, sheet_vars >>

\* handle_note_input binding the note to the group the user has chosen at
\* the moment the URL arrives, not to the group kept in the state.
handle_note_input_current_group(u, message_text) ==
    /\ MenuEvent
    /\ PendingNoteCreationFilter(u)
    /\ LET state == Val(NOTE_CREATION_STATE[u])
           text  == Strip(message_text)
           pop   == [NOTE_CREATION_STATE EXCEPT ![u] = None]
       IN  IF StartsWith(text, << "/" >>)
           THEN /\ NOTE_CREATION_STATE' = pop
                /\ UNCHANGED << notes, sqlite_sequence >>
           ELSE IF state.step = "title"
           THEN /\ NOTE_CREATION_STATE' =
                       [NOTE_CREATION_STATE EXCEPT ![u] =
                           Some([state EXCEPT !.title = Some(text), !.step = "url"])]
                /\ UNCHANGED << notes, sqlite_sequence >>
           ELSE LET title    == state.title
                    url      == IF text # Dash THEN text ELSE << >>
                    group_id == get_user_group(referral_settings, groups, u)
                IN  /\ NOTE_CREATION_STATE' = pop
                    /\ IF group_id = None
                       THEN UNCHANGED << notes, sqlite_sequence >>
                       ELSE /\ notes' = create_note(
                                   notes, sqlite_sequence, u, Val(group_id),
                                   IF title = None \/ Val(title) = << >>
                                   THEN UntitledNote ELSE Val(title),
                                   url)
                            /\ sqlite_sequence' = sqlite_sequence + 1
    /\ UNCHANGED << users, user_names, groups, referral_settings, reminder_settings,
                    REMINDER_EDITORS, alerts, poll_vars, sink_vars, fn_vars, sheet_vars >>

\* A message from a user who is dictating a note.
handle_note_input(u, message_text) ==
    /\ MenuEvent
    /\ PendingNoteCreationFilter(u)
    /\ LET state == Val(NOTE_CREATION_STATE[u])
           text  == Strip(message_text)
           pop   == [NOTE_CREATION_STATE EXCEPT ![u] = None]
       IN  IF StartsWith(text, << "/" >>) /\ Lower(text) # Cancel
           THEN /\ NOTE_CREATION_STATE' = pop
                /\ UNCHANGED << notes, sqlite_sequence >>
           ELSE IF Lower(text) = Cancel
           THEN /\ NOTE_CREATION_STATE' = pop
                /\ UNCHANGED << notes, sqlite_sequence >>
           ELSE IF state.step = "title"
           THEN /\ NOTE_CREATION_STATE' =
                       [NOTE_CREATION_STATE EXCEPT ![u] =
                           Some([state EXCEPT !.title = Some(text), !.step = "url"])]
                /\ UNCHANGED << notes, sqlite_sequence >>
           ELSE LET title    == state.title
                    url      == IF text # Dash THEN text ELSE << >>
                    group_id == IF state.group_id = None
                                THEN get_user_group(referral_settings, groups, u)
                                ELSE state.group_id
                IN  /\ NOTE_CREATION_STATE' = pop
                    /\ IF group_id = None
                       THEN UNCHANGED << notes, sqlite_sequence >>
                       ELSE /\ notes' = create_note(
                                   notes, sqlite_sequence, u, Val(group_id),
                                   IF title = None \/ Val(title) = << >>
                                   THEN UntitledNote ELSE Val(title),
                                   url)
                            /\ sqlite_sequence' = sqlite_sequence + 1
    /\ UNCHANGED << users, user_names, groups, referral_settings, reminder_settings,
                    REMINDER_EDITORS, alerts, poll_vars, sink_vars, fn_vars, sheet_vars >>

\* A message from a user who is editing the reminder text; handle_note_input
\* is registered before this handler and takes the message when its filter
\* admits it.
handle_reminder_edit_input(u, message_text) ==
    /\ MenuEvent
    /\ ~PendingNoteCreationFilter(u)
    /\ ReminderEditFilter(u)
    /\ LET text == Strip(message_text)
       IN  IF Lower(text) = Cancel
           THEN /\ REMINDER_EDITORS' = REMINDER_EDITORS \ {u}
                /\ UNCHANGED reminder_settings
           ELSE IF text = << >>
           THEN UNCHANGED << REMINDER_EDITORS, reminder_settings >>
           ELSE /\ REMINDER_EDITORS' = REMINDER_EDITORS \ {u}
                /\ reminder_settings' = set_reminder_text(text)
    /\ UNCHANGED << users, user_names, groups, referral_settings, notes, sqlite_sequence,
                    NOTE_CREATION_STATE, alerts, poll_vars, sink_vars, fn_vars, sheet_vars >>

NextMenus ==
    \/ \E u \in Users, n \in Usernames, d \in SetGroupData :
          handle_group_selection_callback(u, n, d)
    \/ \E u \in Users, n \in Usernames, d \in NoteViewData : handle_note_view(u, n, d)
    \/ \E u \in Users, n \in Usernames : handle_note_add(u, n)
    \/ \E u \in Users, n \in Usernames, d \in DeleteNoteData : handle_note_delete(u, n, d)
    \/ \E u \in Users, d \in CopyNoteRefData : handle_copy_note_ref(u, d)
    \/ \E u \in Users, n \in Usernames : handle_edit_reminder_text(u, n)
    \/ \E u \in Users, m \in MessageTexts : handle_note_input(u, m)
    \/ \E u \in Users, m \in MessageTexts : handle_reminder_edit_input(u, m)

SpecMenus == InitMenus /\ [][NextMenus]_vars



(***************************************************************************)
(* Claims about the side-states and the menu callbacks.                    *)
(***************************************************************************)
\* The side-states a user is in.
InNoteCreation(u) == NOTE_CREATION_STATE[u] # None

InReminderEditing(u) == u \in REMINDER_EDITORS

\* C21: the input-capture side-states are mutually exclusive per user: in
\* every reachable state no user is at the same time in note creation and in
\* reminder-text editing.
C21_SideStatesExclusive ==
    \A u \in Users : ~(InNoteCreation(u) /\ InReminderEditing(u))



\* The messages that say /cancel.
CancelMessages == {Cancel, CancelShout}

\* C22: a /cancel message from a user who is in any side-state leaves that
\* user in no side-state at all, creates no note and leaves the global
\* reminder text unchanged.
C22_CancelLeavesNoSideState ==
    [][\A u \in Users, m \in CancelMessages :
          (handle_note_input(u, m) \/ handle_reminder_edit_input(u, m))
          => /\ ~InNoteCreation(u)'
             /\ ~InReminderEditing(u)'
             /\ notes' = notes
             /\ reminder_settings' = reminder_settings]_vars



(***************************************************************************)
(* The funnel callbacks with the payload as it arrives.  The age and the   *)
(* income handler are registered under a prefix filter, so the part after  *)
(* the colon is whatever the client sent; the device handler is registered *)
(* under the set of the DEVICE_OPTIONS keys.                               *)
(***************************************************************************)
\* Payloads that are not keys of AGE_OPTIONS / INCOME_OPTIONS.
UnknownAgeKeys == {"99"}
UnknownIncomeKeys == {"1000+"}

NextCallbacks ==
    \/ \E u \in Leads : cmd_poll(u)
    \/ \E u \in Leads : handle_poll_callback(u)
    \/ \E t \in Tasks, u \in Leads, k \in AgeKeys \cup UnknownAgeKeys :
          handle_age_choice(t, u, k)
    \/ \E t \in Tasks, u \in Leads, k \in IncomeKeys \cup UnknownIncomeKeys :
          handle_income_choice(t, u, k)
    \/ \E t \in Tasks, u \in Leads, k \in DeviceKeys : handle_device_choice(t, u, k)
    \/ \E t \in Tasks : UpdateGetReferrer(t)
    \/ \E t \in Tasks : UpdateEnsure(t)
    \/ \E t \in Tasks : UpdateStatement(t)
    \/ \E t \in Tasks : AgeReply(t)
    \/ \E t \in Tasks : IncomeReply(t)
    \/ \E t \in Tasks : DeviceCancel(t)
    \/ \E t \in Tasks : DeviceMarkReminder(t)
    \/ \E t \in Tasks : DeviceReply(t)
    \/ \E t \in Tasks : NotifyFetch(t)
    \/ \E t \in Tasks : NotifyCheck(t)
    \/ \E t \in Tasks : NotifyGroup(t)
    \/ \E t \in Tasks : NotifySend(t)
    \/ \E t \in Tasks : NotifyMark(t)
    \/ \E t \in Tasks : DevicePrompt(t)

SpecCallbacks == Init /\ [][NextCallbacks]_vars

\* The labels of a dictionary of options.
Labels(options) == { options[k] : k \in DOMAIN options }

\* C23: a funnel callback whose payload is not one of the enumerated keys is
\* rejected without a state change: in every reachable state a poll row's
\* age is unset or one of the four age bracket labels, its income is unset or
\* one of the four income bracket labels, and its device is unset or one of
\* the two device labels.
C23_StoredAnswersEnumerated ==
    \A u \in Users :
        poll_responses[u] # None =>
            LET row == Val(poll_responses[u])
            IN  /\ row.age = None \/ Val(row.age) \in Labels(AGE_OPTIONS)
                /\ row.income = None \/ Val(row.income) \in Labels(INCOME_OPTIONS)
                /\ row.device = None \/ Val(row.device) \in Labels(DEVICE_OPTIONS)



\* A callback of user u whose integer field int() refuses, handled by one of
\* the four handlers that parse such a field.
MalformedCallback(u) ==
    \E f \in BadFields :
        \/ \E n \in Usernames : handle_group_selection_callback(u, n, SetGroupPrefix \o f)
        \/ \E n \in Usernames : handle_note_view(u, n, NoteViewPrefix \o f)
        \/ \E n \in Usernames : handle_note_delete(u, n, DeleteNotePrefix \o f)
        \/ handle_copy_note_ref(u, CopyNoteRefPrefix \o f)

\* The alerts that answer an unparseable integer field.
ParseAlerts == {AlertGroupFailed, AlertViewFailed, AlertDeleteFailed, AlertLinkFailed}

\* One more alert was shown to u, and it reports an unparseable field.
AnsweredWithParseAlert(u) ==
    /\ Len(alerts'[u]) = Len(alerts[u]) + 1
    /\ alerts'[u][Len(alerts'[u])] \in ParseAlerts

\* C24 (as stated): a group-selection, note-view, note-delete or
\* copy-note-link callback whose integer field cannot be parsed is answered
\* with a user-visible alert and changes no stored state at all: user rows,
\* notification routing, notes, side-states.
C24_MalformedCallbackChangesNothing ==
    [][\A u \in Users :
          MalformedCallback(u)
          => /\ AnsweredWithParseAlert(u)
             /\ UNCHANGED << users, user_names, groups, referral_settings, notes,
                             sqlite_sequence, reminder_settings, NOTE_CREATION_STATE,
                             REMINDER_EDITORS, poll_vars >>]_vars

\* C24 (amended): such a callback is answered with a user-visible alert and
\* changes no notification routing, no note, no reminder text and no
\* side-state; the only stored state it may change is the sender's own users
\* row, which the group-selection, note-view and note-delete handlers upsert
\* before they parse the field.
C24_MalformedCallbackKeepsMenus ==
    [][\A u \in Users :
          MalformedCallback(u)
          => /\ AnsweredWithParseAlert(u)
             /\ UNCHANGED << groups, referral_settings, notes, sqlite_sequence,
                             reminder_settings, NOTE_CREATION_STATE, REMINDER_EDITORS,
                             poll_vars >>
             /\ users' \subseteq users \cup {u}
             /\ \A v \in Users \ {u} : user_names'[v] = user_names[v]]_vars

\* Each of the four handlers has answered an unparseable field.
C24_Witness ==
    \A a \in ParseAlerts :
        \E u \in Users : \E i \in 1..Len(alerts[u]) : alerts[u][i] = a


(***************************************************************************)
(* SheetsReferralLogger.log_referral_click_event.  Every call runs in its  *)
(* own asyncio task.  The two sink functions run in worker threads         *)
(* (asyncio.to_thread) under asyncio.wait_for: when the timeout passes,    *)
(* wait_for raises TimeoutError in the caller, while the function goes on  *)
(* in its thread until it ends, for a running thread cannot be cancelled.  *)
(***************************************************************************)
\* The bot itself has not been talked to.
BotAtRest ==
    /\ users = {}
    /\ groups = {}
    /\ referral_settings = [u \in Users |-> None]
    /\ referral_clicks = {}
    /\ note_clicks = << >>
    /\ poll_responses = [u \in Users |-> None]
    /\ REMINDER_TASKS = [u \in Users |-> "absent"]
    /\ chat = [u \in Users |-> {}]
    /\ group_out = << >>
    /\ reminder_out = [u \in Users |-> 0]
    /\ claim_log = [u \in Users |-> << >>]
    /\ task = [t \in Tasks |-> IdleTask]
    /\ nEvents = 0
    /\ unreferenced_workers = [u \in Users |-> 0]
    /\ device_done = [u \in Users |-> FALSE]
    /\ session_reminders = [u \in Users |-> 0]
    /\ MenusAtRest

\* The values the constructor is given for the spreadsheet id and for the
\* path of the credentials.
SpreadsheetIds == {None, Some("sheet-id")}
ServiceAccountJsons == {None, Some(""), Some("/tmp/fake.json")}

\* A logger just constructed, with any configuration.
InitSink ==
    /\ BotAtRest
    /\ FnAtRest
    /\ SheetsAtRest
    /\ \E enabled \in BOOLEAN, id \in SpreadsheetIds, json \in ServiceAccountJsons :
          sheets_logger = SheetsReferralLogger(enabled, id, json)
    /\ lock = [holder |-> None, waiters |-> << >>]
    /\ call = [c \in Calls |-> IdleCall]
    /\ threads = {}
    /\ error_log = << >>

\* An except clause that takes the errors of the sink but not the timeout.
Catches_sink_errors_only(exc) == exc = "APIError"

\* "except Exception": the exceptions the handler of log_referral_click_event
\* takes.  A failing sink function raises an APIError, wait_for raises
\* TimeoutError; both classes derive from Exception.
Catches(exc) == exc \in {"APIError", "TimeoutError"}

\* "if not self.spreadsheet_id or not self.service_account_json"
MissingConfig(l) == l.spreadsheet_id = "" \/ l.service_account_json = ""

\* asyncio.Lock.release: the lock passes to the waiter that has waited longest.
Release(l) ==
    IF l.waiters = << >> THEN [holder |-> None, waiters |-> << >>]
    ELSE [holder |-> Some(Head(l.waiters)), waiters |-> Tail(l.waiters)]

\* asyncio.to_thread(self._append_row_sync, sheet_name, row) begun by call c.
StartAppend(c) ==
    /\ threads' = threads \cup {[call |-> c, op |-> "append"]}
    /\ call' = [call EXCEPT ![c].pc = "append", ![c].appends = @ + 1,
                            ![c].append = "running"]

\* An exception leaves the "async with" block of call c: the lock is
\* released, and the except clause logs the failure if it takes the
\* exception; otherwise the exception reaches the caller.
Fails(c, op, exc) ==
    /\ lock' = Release(lock)
    /\ call' = [call EXCEPT ![c].pc = IF Catches(exc) THEN "returned" ELSE "raised",
                            ![c][op] = IF exc = "TimeoutError" THEN "timeout" ELSE "error",
                            ![c].raised = ~Catches(exc)]
    /\ error_log' = IF Catches(exc)
                    THEN Append(error_log, [kind |-> "failure", call |-> c, exc |-> exc])
                    ELSE error_log

\* log_referral_click_event without the _config_error_logged flag.
log_referral_click_event_logs_every_time(c) ==
    /\ call[c].pc = "idle"
    /\ \A d \in Calls : d < c => call[d].pc # "idle"
    /\ IF ~sheets_logger.enabled
       THEN /\ call' = [call EXCEPT ![c].pc = "returned"]
            /\ UNCHANGED << sheets_logger, lock, threads, error_log >>
       ELSE IF MissingConfig(sheets_logger)
       THEN /\ call' = [call EXCEPT ![c].pc = "returned"]
            /\ error_log' = Append(error_log, [kind |-> "config"])
            /\ UNCHANGED << sheets_logger, lock, threads >>
       ELSE IF lock.holder = None
       THEN /\ lock' = [lock EXCEPT !.holder = Some(c)]
            /\ StartAppend(c)
            /\ UNCHANGED << sheets_logger, error_log >>
       ELSE /\ lock' = [lock EXCEPT !.waiters = Append(@, c)]
            /\ call' = [call EXCEPT ![c].pc = "lock"]
            /\ UNCHANGED << sheets_logger, threads, error_log >>
    /\ UNCHANGED << bot_vars, fn_vars, sheet_vars >>

\* log_referral_click_event is called: the two configuration checks, then
\* the row is built and the lock is taken if it is free.
log_referral_click_event(c) ==
    /\ call[c].pc = "idle"
    /\ \A d \in Calls : d < c => call[d].pc # "idle"
    /\ IF ~sheets_logger.enabled
       THEN /\ call' = [call EXCEPT ![c].pc = "returned"]
            /\ UNCHANGED << sheets_logger, lock, threads, error_log >>
       ELSE IF MissingConfig(sheets_logger)
       THEN /\ call' = [call EXCEPT ![c].pc = "returned"]
            /\ IF ~sheets_logger.config_error_logged
               THEN /\ error_log' = Append(error_log, [kind |-> "config"])
                    /\ sheets_logger' = [sheets_logger EXCEPT !.config_error_logged = TRUE]
               ELSE UNCHANGED << sheets_logger, error_log >>
            /\ UNCHANGED << lock, threads >>
       ELSE IF lock.holder = None
       THEN /\ lock' = [lock EXCEPT !.holder = Some(c)]
            /\ StartAppend(c)
            /\ UNCHANGED << sheets_logger, error_log >>
       ELSE /\ lock' = [lock EXCEPT !.waiters = Append(@, c)]
            /\ call' = [call EXCEPT ![c].pc = "lock"]
            /\ UNCHANGED << sheets_logger, threads, error_log >>
    /\ UNCHANGED << bot_vars, fn_vars, sheet_vars >>

\* A call that waited for the lock is resumed holding it.
LockAcquired(c) ==
    /\ call[c].pc = "lock"
    /\ lock.holder = Some(c)
    /\ StartAppend(c)
    /\ UNCHANGED << sheets_logger, lock, error_log, bot_vars, fn_vars, sheet_vars >>

\* _append_row_sync returns within the timeout: the stats upsert is begun.
AppendReturns(c) ==
    /\ call[c].pc = "append"
    /\ [call |-> c, op |-> "append"] \in threads
    /\ threads' = (threads \ {[call |-> c, op |-> "append"]})
                      \cup {[call |-> c, op |-> "upsert"]}
    /\ call' = [call EXCEPT ![c].pc = "upsert", ![c].append = "ok",
                            ![c].upserts = @ + 1, ![c].upsert = "running"]
    /\ UNCHANGED << sheets_logger, lock, error_log, bot_vars, fn_vars, sheet_vars >>

\* _append_row_sync raises within the timeout.
AppendRaises(c) ==
    /\ call[c].pc = "append"
    /\ [call |-> c, op |-> "append"] \in threads
    /\ threads' = threads \ {[call |-> c, op |-> "append"]}
    /\ Fails(c, "append", "APIError")
    /\ UNCHANGED << sheets_logger, bot_vars, fn_vars, sheet_vars >>

\* The timeout of the append swallowed: the upsert is begun all the same.
AppendTimesOut_goes_on(c) ==
    /\ call[c].pc = "append"
    /\ [call |-> c, op |-> "append"] \in threads
    /\ threads' = threads \cup {[call |-> c, op |-> "upsert"]}
    /\ call' = [call EXCEPT ![c].pc = "upsert", ![c].append = "timeout",
                            ![c].upserts = @ + 1, ![c].upsert = "running"]
    /\ UNCHANGED << sheets_logger, lock, error_log, bot_vars, fn_vars, sheet_vars >>

\* The timeout of the append passes: the thread is left running.
AppendTimesOut(c) ==
    /\ call[c].pc = "append"
    /\ [call |-> c, op |-> "append"] \in threads
    /\ Fails(c, "append", "TimeoutError")
    /\ UNCHANGED << sheets_logger, threads, bot_vars, fn_vars, sheet_vars >>

\* _upsert_stats_sheet_sync returns within the timeout: the call returns.
UpsertReturns(c) ==
    /\ call[c].pc = "upsert"
    /\ [call |-> c, op |-> "upsert"] \in threads
    /\ threads' = threads \ {[call |-> c, op |-> "upsert"]}
    /\ lock' = Release(lock)
    /\ call' = [call EXCEPT ![c].pc = "returned", ![c].upsert = "ok"]
    /\ UNCHANGED << sheets_logger, error_log, bot_vars, fn_vars, sheet_vars >>

\* _upsert_stats_sheet_sync raises within the timeout.
UpsertRaises(c) ==
    /\ call[c].pc = "upsert"
    /\ [call |-> c, op |-> "upsert"] \in threads
    /\ threads' = threads \ {[call |-> c, op |-> "upsert"]}
    /\ Fails(c, "upsert", "APIError")
    /\ UNCHANGED << sheets_logger, bot_vars, fn_vars, sheet_vars >>

\* The timeout of the upsert passes: the thread is left running.
UpsertTimesOut(c) ==
    /\ call[c].pc = "upsert"
    /\ [call |-> c, op |-> "upsert"] \in threads
    /\ Fails(c, "upsert", "TimeoutError")
    /\ UNCHANGED << sheets_logger, threads, bot_vars, fn_vars, sheet_vars >>

\* A sink function whose caller has timed out ends in its thread; nothing
\* awaits its result.
AbandonedThreadEnds(c) ==
    /\ call[c].pc \in {"returned", "raised"}
    /\ \E th \in threads :
          /\ th.call = c
          /\ threads' = threads \ {th}
    /\ UNCHANGED << sheets_logger, lock, call, error_log, bot_vars, fn_vars, sheet_vars >>

NextSink ==
    \/ \E c \in Calls : log_referral_click_event(c)
    \/ \E c \in Calls : LockAcquired(c)
    \/ \E c \in Calls : AppendReturns(c)
    \/ \E c \in Calls : AppendRaises(c)
    \/ \E c \in Calls : AppendTimesOut(c)
    \/ \E c \in Calls : UpsertReturns(c)
    \/ \E c \in Calls : UpsertRaises(c)
    \/ \E c \in Calls : UpsertTimesOut(c)
    \/ \E c \in Calls : AbandonedThreadEnds(c)

SpecSink == InitSink /\ [][NextSink]_vars


(***************************************************************************)
(* Claims about the spreadsheet logger.                                    *)
(***************************************************************************)
\* The records of the given kind that logger.error has written.
ConfigRecords == { i \in 1..Len(error_log) : error_log[i].kind = "config" }

FailureRecords(c) ==
    { i \in 1..Len(error_log) : error_log[i].kind = "failure" /\ error_log[i].call = c }

\* A sink function of call c has failed or has timed out.
SinkFailed(c) ==
    \/ call[c].append \in {"error", "timeout"}
    \/ call[c].upsert \in {"error", "timeout"}

\* The logger is switched on with, or without, its configuration.
Configured == sheets_logger.enabled /\ ~MissingConfig(sheets_logger)

Misconfigured == sheets_logger.enabled /\ MissingConfig(sheets_logger)

\* C25: log_referral_click_event never raises to its caller: every failure
\* or timeout of the row append or of the stats upsert is caught and logged
\* (one record per failed call), and the failed call is never retried (a call
\* starts the append at most once and the upsert at most once).
C25_SinkFailuresCaughtAndLogged ==
    \A c \in Calls :
        /\ ~call[c].raised
        /\ call[c].pc # "raised"
        /\ call[c].appends <= 1
        /\ call[c].upserts <= 1
        /\ Cardinality(FailureRecords(c)) = IF SinkFailed(c) THEN 1 ELSE 0
        /\ SinkFailed(c) => call[c].pc = "returned"

\* One call has returned after its append timed out and another after its
\* upsert raised.
C25_Witness ==
    \E c, d \in Calls :
        /\ call[c].pc = "returned" /\ call[c].append = "timeout"
        /\ call[d].pc = "returned" /\ call[d].upsert = "error"

\* C26: with the sink enabled but the spreadsheet id or the credentials
\* missing, the configuration error is logged exactly once over any number
\* of logged events, and no row append or stats upsert is ever attempted.
C26_ConfigErrorLoggedOnce ==
    Misconfigured =>
        /\ Cardinality(ConfigRecords) = IF \E c \in Calls : call[c].pc # "idle" THEN 1 ELSE 0
        /\ Len(error_log) = Cardinality(ConfigRecords)
        /\ threads = {}
        /\ \A c \in Calls : call[c].appends = 0 /\ call[c].upserts = 0
        /\ \A c \in Calls : call[c].pc \in {"idle", "returned"}

\* Every call of the run has returned from a logger without configuration.
C26_Witness == Misconfigured /\ \A c \in Calls : call[c].pc = "returned"

\* C27: at most one reporting-sink call (row append or stats upsert) is
\* executing at any time, for any number of concurrently logged events and
\* whichever of those calls time out.
C27_OneSinkCallAtATime == Cardinality(threads) <= 1

\* C28 (as stated): for an enabled and configured logger, each logged event
\* triggers exactly one row append and then exactly one stats upsert.
C28_OneAppendOneUpsert ==
    Configured =>
        \A c \in Calls :
            call[c].pc = "returned" => call[c].appends = 1 /\ call[c].upserts = 1

\* C28 (amended): for an enabled and configured logger, each logged event
\* triggers exactly one row append; the stats upsert is started, once, exactly
\* when the append has completed within its timeout, and not at all when the
\* append failed or timed out.
C28_OneAppendThenUpsertIfAppended ==
    Configured =>
        \A c \in Calls :
            /\ call[c].pc \in {"append", "upsert", "returned"} => call[c].appends = 1
            /\ call[c].upserts = IF call[c].append = "ok" THEN 1 ELSE 0
            /\ [call |-> c, op |-> "upsert"] \in threads => call[c].append = "ok"
            /\ call[c].pc = "upsert" => call[c].append = "ok"

\* One event was logged in full and another lost its append to the timeout.
C28_Witness ==
    /\ Configured
    /\ \E c, d \in Calls :
          /\ call[c].pc = "returned" /\ call[c].append = "ok" /\ call[c].upsert = "ok"
          /\ call[d].pc = "returned" /\ call[d].append = "timeout"


(***************************************************************************)
(* sanitize_sheet_name and SheetsReferralLogger.build_event_row.  The two  *)
(* functions are applied to arguments drawn from the sets below.           *)
(***************************************************************************)
NO_NOTE_KEY == << "_", "_", "N", "O", "_", "N", "O", "T", "E", "_", "_" >>

\* INVALID_SHEET_CHARS_RE: the characters of the class [\[\]:*?/\\].
INVALID_SHEET_CHARS == {"[", "]", ":", "*", "?", "/", "\\"}

MAX_SHEET_NAME_LEN == 95

\* HEADERS: the names of the columns of an event row (transliterated).
HEADERS == << "nazva_prymitky", "posylannya_prymitky", "yuzerneym_zaproshenoho",
              "chas_podiyi_utc", "id_prymitky", "id_hrupy", "nazva_hrupy",
              "id_referera", "yuzerneym_referera", "id_zaproshenoho", "dzherelo",
              "chas_zapysu_botom" >>

\* The characters str.strip, str.rstrip and str.split take as whitespace.
Whitespace == {" ", "\t", "\n"}

RECURSIVE NatToStr(_)
NatToStr(n) ==
    IF n < 10 THEN << Digits[n + 1] >>
    ELSE NatToStr(n \div 10) \o << Digits[(n % 10) + 1] >>

\* str(n) of an int.
IntToStr(n) == IF n < 0 THEN << "-" >> \o NatToStr(0 - n) ELSE NatToStr(n)

\* s[:n]
Slice(s, n) == SubSeq(s, 1, IF n < Len(s) THEN n ELSE Len(s))

\* str.rstrip()
RStripWs(s) ==
    LET keep == { i \in 1..Len(s) : s[i] \notin Whitespace }
    IN  IF keep = {} THEN << >>
        ELSE SubSeq(s, 1, CHOOSE i \in keep : \A j \in keep : i >= j)

\* str.strip()
StripWs(s) ==
    LET keep == { i \in 1..Len(s) : s[i] \notin Whitespace }
    IN  IF keep = {} THEN << >>
        ELSE SubSeq(s, CHOOSE i \in keep : \A j \in keep : i <= j,
                       CHOOSE i \in keep : \A j \in keep : i >= j)

RECURSIVE Gather(_, _, _, _)
\* The characters of s at the positions lo..hi that keep marks, in order,
\* a whitespace character among them taken as a space.
Gather(s, keep, lo, hi) ==
    IF lo > hi THEN << >>
    ELSE IF lo = hi
    THEN IF keep[lo] THEN << IF s[lo] \in Whitespace THEN " " ELSE s[lo] >> ELSE << >>
    ELSE LET mid == (lo + hi) \div 2
         IN  Gather(s, keep, lo, mid) \o Gather(s, keep, mid + 1, hi)

\* " ".join(s.split()): the words of s, one space between two words.  Of a
\* run of whitespace that has a word before it and a word after it the first
\* character is kept, as a space; all other whitespace is dropped.
JoinWords(s) ==
    LET word == { i \in 1..Len(s) : s[i] \notin Whitespace }
        last == IF word = {} THEN 0 ELSE CHOOSE i \in word : \A j \in word : i >= j
        keep == [i \in 1..Len(s) |->
                    \/ s[i] \notin Whitespace
                    \/ i > 1 /\ i < last /\ s[i - 1] \notin Whitespace]
    IN  Gather(s, keep, 1, Len(s))

\* INVALID_SHEET_CHARS_RE.sub(" ", s)
SubInvalid(s) == [i \in 1..Len(s) |-> IF s[i] \in INVALID_SHEET_CHARS THEN " " ELSE s[i]]

GroupUnknown == << "g", "r", "o", "u", "p", "_", "u", "n", "k", "n", "o", "w", "n" >>
GroupWord == << "g", "r", "o", "u", "p" >>

\* sanitize_sheet_name without the cut to the length limit.
sanitize_sheet_name_uncut(group_id, group_title) ==
    LET fallback  == GroupWord \o << "_" >> \o IntToStr(Val(group_id))
        stripped  == StripWs(IF group_title # None /\ Val(group_title) # << >>
                             THEN Val(group_title) ELSE fallback)
        base      == IF group_id = None THEN GroupUnknown
                     ELSE IF stripped = << >> THEN fallback ELSE stripped
        suffix    == IF group_id = None THEN << >>
                     ELSE << " ", "[" >> \o IntToStr(Val(group_id)) \o << "]" >>
        joined    == JoinWords(SubInvalid(base))
        safe_base == IF joined = << >> THEN GroupUnknown ELSE joined
    IN  safe_base \o suffix

\* sanitize_sheet_name
sanitize_sheet_name(group_id, group_title) ==
    LET fallback  == GroupWord \o << "_" >> \o IntToStr(Val(group_id))
        stripped  == StripWs(IF group_title # None /\ Val(group_title) # << >>
                             THEN Val(group_title) ELSE fallback)
        base      == IF group_id = None THEN GroupUnknown
                     ELSE IF stripped = << >> THEN fallback ELSE stripped
        suffix    == IF group_id = None THEN << >>
                     ELSE << " ", "[" >> \o IntToStr(Val(group_id)) \o << "]" >>
        joined    == JoinWords(SubInvalid(base))
        safe_base == IF joined = << >> THEN GroupUnknown ELSE joined
    IN  IF suffix = << >> THEN Slice(safe_base, MAX_SHEET_NAME_LEN)
        ELSE LET base_limit   == MAX_SHEET_NAME_LEN - Len(suffix)
                 trimmed_base == RStripWs(Slice(safe_base,
                                                IF base_limit > 1 THEN base_limit ELSE 1))
             IN  (IF trimmed_base = << >> THEN GroupWord ELSE trimmed_base) \o suffix

\* "(x or '').strip()" of an Optional[str]
StrippedOrEmpty(o) == IF o = None THEN << >> ELSE StripWs(Val(o))

\* build_event_row with the usernames as they are stored, without the "@".
build_event_row_bare_usernames(event, sheet_name, event_ts_utc) ==
    LET note_title        == IF StrippedOrEmpty(event.note_title) = << >>
                             THEN NO_NOTE_KEY ELSE StrippedOrEmpty(event.note_title)
        note_url          == StrippedOrEmpty(event.note_url)
        referrer_username == StrippedOrEmpty(event.referrer_username)
        referred_username == StrippedOrEmpty(event.referred_username)
    IN  << note_title,
           note_url,
           referred_username,
           event_ts_utc,
           IF event.note_id # None THEN IntToStr(Val(event.note_id)) ELSE << >>,
           IF event.group_id # None THEN IntToStr(Val(event.group_id)) ELSE << >>,
           IF event.group_title # None THEN Val(event.group_title) ELSE << >>,
           IntToStr(event.referrer_id),
           referrer_username,
           IntToStr(event.referred_user_id),
           event.source,
           event_ts_utc >>

\* SheetsReferralLogger.build_event_row
build_event_row(event, sheet_name, event_ts_utc) ==
    LET note_title        == IF StrippedOrEmpty(event.note_title) = << >>
                             THEN NO_NOTE_KEY ELSE StrippedOrEmpty(event.note_title)
        note_url          == StrippedOrEmpty(event.note_url)
        referrer_username == StrippedOrEmpty(event.referrer_username)
        referred_username == StrippedOrEmpty(event.referred_username)
    IN  << note_title,
           note_url,
           IF referred_username # << >> THEN << "@" >> \o referred_username ELSE << >>,
           event_ts_utc,
           IF event.note_id # None THEN IntToStr(Val(event.note_id)) ELSE << >>,
           IF event.group_id # None THEN IntToStr(Val(event.group_id)) ELSE << >>,
           IF event.group_title # None THEN Val(event.group_title) ELSE << >>,
           IntToStr(event.referrer_id),
           IF referrer_username # << >> THEN << "@" >> \o referrer_username ELSE << >>,
           IntToStr(event.referred_user_id),
           event.source,
           event_ts_utc >>

\* The character c, n times.
Repeat(c, n) == [i \in 1..n |-> c]

\* Group ids: small ones, the one of the test, a supergroup-style negative
\* id, and the largest and the smallest id the checker's integers hold.
SheetGroupIds == {0, 7, 77, 12345, -100123, 2147483647, -2147483647}

\* How titles begin and end, the character they are filled with and how
\* often: the fills reach up to and beyond the length limit.
TitleHeads == { << >>,
                << "S", "a", "l", "e", "s", " ", "[", "Q", "1", "]", "/", "L", "e",
                   "a", "d", ":", "*", "?", "\\" >>,
                << " ", "\t" >> }
TitleFills == {"A", " ", "/"}
TitleFillLengths == {0, 1, 80, 88, 91, 95, 200}
TitleTails == { << >>, << "]", " ", "z" >> }

\* group_title as the caller passes it.
SheetTitles ==
    {None} \cup { Some(h \o Repeat(c, n) \o t) :
                     h \in TitleHeads, c \in TitleFills, n \in TitleFillLengths,
                     t \in TitleTails }

\* The fields of an event that build_event_row reads.
EventUsernames == { None, Some(<< >>), Some(<< "r", "e", "f", "_", "u", "s", "e", "r" >>) }
EventNoteTitles == { None, Some(<< >>), Some(<< " " >>), Some(<< "N", "o", "t", "e" >>) }
EventNoteIds == { None, Some(0), Some(30) }
EventNoteUrls == { None, Some(<< "u", ".", "r", "l" >>) }
EventGroups == { [id |-> None, title |-> None],
                 [id |-> Some(1), title |-> Some(<< "G", "r", "o", "u", "p" >>)] }

SheetsReferralEvents ==
    { [group_id |-> g.id, group_title |-> g.title, referrer_id |-> 10,
       referrer_username |-> ru, referred_user_id |-> 20, referred_username |-> du,
       note_id |-> ni, note_title |-> nt, note_url |-> nu, source |-> "ref_link"] :
         g \in EventGroups, ru \in EventUsernames, du \in EventUsernames,
         ni \in EventNoteIds, nt \in EventNoteTitles, nu \in EventNoteUrls }

\* datetime.now(timezone.utc).strftime(...) at the call.
EventTimestamp == "2026-02-23T15:04:05Z"

\* A function about to be applied to arguments.
InitFn ==
    /\ BotAtRest
    /\ SinkAtRest
    /\ SheetsAtRest
    /\ \/ \E id \in {None} \cup { Some(i) : i \in SheetGroupIds }, title \in SheetTitles :
             fn = [op |-> "sanitize_sheet_name", args |-> << id, title >>, out |-> None]
       \/ \E event \in SheetsReferralEvents :
             fn = [op |-> "build_event_row", args |-> << event >>, out |-> None]

\* sheet_name = sanitize_sheet_name(event.group_id, event.group_title)
Call_sanitize_sheet_name ==
    /\ fn.op = "sanitize_sheet_name"
    /\ fn.out = None
    /\ fn' = [fn EXCEPT !.out = Some(sanitize_sheet_name(fn.args[1], fn.args[2]))]
    /\ UNCHANGED << bot_vars, sink_vars, sheet_vars >>

\* row = self.build_event_row(event, sheet_name=sheet_name, event_ts_utc=event_ts_utc)
Call_build_event_row ==
    /\ fn.op = "build_event_row"
    /\ fn.out = None
    /\ LET event == fn.args[1]
       IN  fn' = [fn EXCEPT !.out = Some(build_event_row(
                       event, sanitize_sheet_name(event.group_id, event.group_title),
                       EventTimestamp))]
    /\ UNCHANGED << bot_vars, sink_vars, sheet_vars >>

NextFn ==
    \/ Call_sanitize_sheet_name
    \/ Call_build_event_row

SpecFn == InitFn /\ [][NextFn]_vars

(***************************************************************************)
(* Claims about the two functions.                                         *)
(***************************************************************************)
\* str.endswith
EndsWith(s, p) == Len(s) >= Len(p) /\ SubSeq(s, Len(s) - Len(p) + 1, Len(s)) = p

\* sanitize_sheet_name has been applied to a group id that is not None.
SanitizedWithId ==
    fn.op = "sanitize_sheet_name" /\ fn.out # None /\ fn.args[1] # None

\* C29: for every non-null group id and every title, sanitize_sheet_name
\* returns a name that ends with ' [<id>]', whose part before that suffix
\* contains none of the characters [ ] : * ? / or backslash, and whose total
\* length is at most 95.
C29_SheetNameSuffixedCleanAndShort ==
    SanitizedWithId =>
        LET name   == Val(fn.out)
            suffix == << " ", "[" >> \o IntToStr(Val(fn.args[1])) \o << "]" >>
        IN  /\ EndsWith(name, suffix)
            /\ \A i \in 1..(Len(name) - Len(suffix)) :
                   name[i] \notin {"[", "]", ":", "*", "?", "/", "\\"}
            /\ Len(name) <= 95

\* The function has been applied to a title of 200 and more characters with
\* brackets, slashes and colons in it.
C29_Witness ==
    /\ SanitizedWithId
    /\ fn.args[2] # None
    /\ Len(Val(fn.args[2])) >= 200
    /\ \E i \in 1..Len(Val(fn.args[2])) : Val(fn.args[2])[i] = "["
    /\ \E i \in 1..Len(Val(fn.args[2])) : Val(fn.args[2])[i] = "/"

\* build_event_row has been applied.
RowBuilt == fn.op = "build_event_row" /\ fn.out # None

\* An Optional[str] that holds a text of at least one character.
NonEmpty(o) == o # None /\ Val(o) # << >>

C31_NoteOwnerAndGroupFixed ==
    /\ [](\A n \in notes :
             /\ n.owner_id \in Users
             /\ n.group_id # None
             /\ \A m \in notes : m.id = n.id => m = n)
    /\ [][/\ \A n \in notes :
                \/ \E m \in notes' : /\ m.id = n.id
                                     /\ m.owner_id = n.owner_id
                                     /\ m.group_id = n.group_id
                \/ /\ \A m \in notes' : m.id # n.id
                   /\ \E name \in Usernames, d \in DeleteNoteData :
                         /\ handle_note_delete(n.owner_id, name, d)
                         /\ ParseInt(AfterColon(d)) = Some(n.id)
          /\ \A m \in notes' \ notes : \A n \in notes : n.id # m.id]_vars

\* A note was created and its owner has deleted it.
C31_Witness ==
    /\ notes = {}
    /\ sqlite_sequence = 1



(***************************************************************************)
(* The menus in a group chat.  /ref is registered without a chat filter    *)
(* (cmd_ref under Command("ref")), so the dashboard and the menus opened   *)
(* from it can stand in a group, where every member can press the buttons  *)
(* of the message: a callback can come from a user who has never talked to *)
(* the bot.                                                                *)
(***************************************************************************)
AlertMainLink == "Posylannya skopiyovano"

\* The referrer has sent /ref in a group and has a users row; the other
\* member of the group has none.
InitUsers ==
    /\ users = {1}
    /\ groups = {10, 20}
    /\ \E chosen \in BOOLEAN :
          referral_settings = [u \in Users |-> IF chosen /\ u = 1 THEN Some(10) ELSE None]
    /\ referral_clicks = {}
    /\ note_clicks = << >>
    /\ poll_responses = [u \in Users |-> None]
    /\ REMINDER_TASKS = [u \in Users |-> "absent"]
    /\ chat = [u \in Users |-> {}]
    /\ group_out = << >>
    /\ reminder_out = [u \in Users |-> 0]
    /\ claim_log = [u \in Users |-> << >>]
    /\ task = [t \in Tasks |-> IdleTask]
    /\ nEvents = 0
    /\ unreferenced_workers = [u \in Users |-> 0]
    /\ device_done = [u \in Users |-> FALSE]
    /\ session_reminders = [u \in Users |-> 0]
    /\ MenusAtRest
    /\ SinkAtRest
    /\ FnAtRest
    /\ SheetsAtRest

\* The "copy_main_ref" button: the link is shown in an alert.
handle_copy_main_ref(u) ==
    /\ MenuEvent
    /\ Alert(u, AlertMainLink)
    /\ UNCHANGED << users, user_names, groups, referral_settings, notes, sqlite_sequence,
                    reminder_settings, NOTE_CREATION_STATE, REMINDER_EDITORS,
                    poll_vars, sink_vars, fn_vars, sheet_vars >>

NextUsers ==
    \/ NextMenus
    \/ \E u \in Users : handle_copy_main_ref(u)

SpecUsers == InitUsers /\ [][NextUsers]_vars

\* A handler has run for an event that user u sent.
HandlerFinishes(u) ==
    \/ \E n \in Usernames, d \in SetGroupData : handle_group_selection_callback(u, n, d)
    \/ \E n \in Usernames, d \in NoteViewData : handle_note_view(u, n, d)
    \/ \E n \in Usernames : handle_note_add(u, n)
    \/ \E n \in Usernames, d \in DeleteNoteData : handle_note_delete(u, n, d)
    \/ \E d \in CopyNoteRefData : handle_copy_note_ref(u, d)
    \/ \E n \in Usernames : handle_edit_reminder_text(u, n)
    \/ \E m \in MessageTexts : handle_note_input(u, m)
    \/ \E m \in MessageTexts : handle_reminder_edit_input(u, m)
    \/ handle_copy_main_ref(u)

\* C32: a user row is created or refreshed by every inbound event from that
\* user and is never deleted: after any handler (command, button callback or
\* captured text message) finishes for a user, that user has a row in the
\* user table.
C32_SenderHasUserRow ==
    [][/\ users \subseteq users'
       /\ \A u \in Users : HandlerFinishes(u) => u \in users']_vars



(***************************************************************************)
(* Claims about the order of the device handler and about the funnel.      *)
(***************************************************************************)
\* The positions of a device handler inside notify_group_about_poll.
NotifyPositions == {"ntf_fetch", "ntf_check", "ntf_group", "ntf_send", "ntf_mark"}

\* The message of the branch the device handler in slot t is on.
BranchMessage(t) ==
    IF task[t].val = Some(DEVICE_OPTIONS["poll_device_no"])
    THEN "referral_bonus" ELSE "own_pace"

Dictated(u) == Val(NOTE_CREATION_STATE[u])

\* C34: a note is created only after a user with a configured group enters
\* note creation and then sends a title message followed by a URL message;
\* a '-' URL message stores an empty URL, the note is owned by that user and
\* bound to the group captured when creation started, and the user is out of
\* the side-state once the note is created.
C34_NoteCreatedByTitleThenUrl ==
    /\ [](\A u \in Users :
             InNoteCreation(u) =>
                /\ Dictated(u).group_id # None
                /\ Dictated(u).step \in {"title", "url"}
                /\ Dictated(u).step = "url" <=> Dictated(u).title # None)
    /\ [][/\ \A u \in Users :
                (InNoteCreation(u)' /\ ~InNoteCreation(u)) =>
                    /\ \E name \in Usernames : handle_note_add(u, name)
                    /\ Dictated(u)'.step = "title"
                    /\ Dictated(u)'.group_id = get_user_group(referral_settings, groups, u)
          /\ \A u \in Users :
                (InNoteCreation(u)' /\ Dictated(u)'.step = "url") =>
                    /\ InNoteCreation(u)
                    /\ Dictated(u)'.group_id = Dictated(u).group_id
                    /\ \/ Dictated(u)' = Dictated(u)
                       \/ /\ Dictated(u).step = "title"
                          /\ \E m \in MessageTexts :
                                /\ handle_note_input(u, m)
                                /\ Dictated(u)'.title = Some(Strip(m))
          /\ \A n \in notes' \ notes :
                \E m \in MessageTexts :
                    /\ handle_note_input(n.owner_id, m)
                    /\ InNoteCreation(n.owner_id)
                    /\ Dictated(n.owner_id).step = "url"
                    /\ n.group_id = Dictated(n.owner_id).group_id
                    /\ n.url = (IF Strip(m) = Dash THEN << >> ELSE Strip(m))
                    /\ n.title = (IF Val(Dictated(n.owner_id).title) = << >>
                                  THEN UntitledNote
                                  ELSE Val(Dictated(n.owner_id).title))
                    /\ ~InNoteCreation(n.owner_id)']_vars

\* A note without URL has been stored for a user who changed the group
\* after creation had started: the note is bound to the group captured.
C34_Witness ==
    \E n \in notes :
        /\ n.url = << >>
        /\ n.title = PlainText
        /\ ~InNoteCreation(n.owner_id)
        /\ referral_settings[n.owner_id] # n.group_id



(***************************************************************************)
(* SheetsReferralLogger._upsert_stats_sheet_sync: the per-note click       *)
(* counts.  The spreadsheet is followed by its content, one sequence of    *)
(* rows per stats worksheet (no rows: the worksheet does not exist), with  *)
(* the events processed one after the other and every request to the       *)
(* Sheets API answered.  A cell is the text the API returns for it.        *)
(***************************************************************************)
\* Events processed in one run.
MaxStatsEvents == 3

\* STATS_SUFFIX and STATS_HEADERS (transliterated).
STATS_SUFFIX == << "[", "S", "t", "a", "t", "y", "s", "t", "y", "k", "a", "]" >>

STATS_HEADERS == << << "N", "a", "z", "v", "a" >>, << "i", "d" >>,
                    << "P", "o", "s", "y", "l", "a", "n", "n", "y", "a" >>,
                    << "K", "i", "l", "k", "i", "s", "t" >> >>

\* sanitize_stats_sheet_name: the title cleaned and cut, then the suffix;
\* the group id is used only when there is no title.
sanitize_stats_sheet_name(group_id, group_title) ==
    LET stripped     == IF group_title = None THEN << >> ELSE StripWs(Val(group_title))
        base         == IF stripped # << >> THEN stripped
                        ELSE IF group_id # None
                        THEN GroupWord \o << "_" >> \o IntToStr(Val(group_id))
                        ELSE GroupUnknown
        joined       == JoinWords(SubInvalid(base))
        safe_base    == IF joined = << >> THEN GroupWord ELSE joined
        suffix       == << " " >> \o STATS_SUFFIX
        max_base_len == IF MAX_SHEET_NAME_LEN - Len(suffix) > 1
                        THEN MAX_SHEET_NAME_LEN - Len(suffix) ELSE 1
        cut          == RStripWs(Slice(safe_base, max_base_len))
    IN  (IF cut = << >> THEN GroupWord ELSE cut) \o suffix

\* row[i].strip() if len(row) > i else ""
CellText(row, i) == IF Len(row) >= i THEN StripWs(row[i]) ELSE << >>

\* _find_first_free_stats_row: the first row from the second on whose cells
\* A to D are all empty, or the row after the last.
find_first_free_stats_row(rows) ==
    LET free == { idx \in 2..Len(rows) :
                     \A i \in 1..4 : CellText(rows[idx], i) = << >> }
    IN  IF Len(rows) <= 1 THEN 2
        ELSE IF free # {} THEN CHOOSE idx \in free : \A j \in free : idx <= j
        ELSE Len(rows) + 1

\* worksheet.update of one whole row: a row beyond the last one extends the
\* values of the sheet.
UpdateRow(rows, idx, row) ==
    IF idx <= Len(rows) THEN [rows EXCEPT ![idx] = row] ELSE Append(rows, row)

\* _ensure_stats_headers_sync
ensure_stats_headers_sync(rows) ==
    IF rows # << >> /\ SubSeq(rows[1], 1, 4) = STATS_HEADERS THEN rows
    ELSE IF rows = << >> THEN << STATS_HEADERS >>
    ELSE [rows EXCEPT ![1] = STATS_HEADERS]

\* _upsert_stats_sheet_sync: the spreadsheet after the call.
upsert_stats_sheet_sync(sheets, event) ==
    LET stripped   == IF event.note_title = None THEN << >> ELSE StripWs(Val(event.note_title))
        note_title == IF stripped = << >> THEN NO_NOTE_KEY ELSE stripped
        name       == sanitize_stats_sheet_name(event.group_id, event.group_title)
        rows       == ensure_stats_headers_sync(sheets[name])
        note_url   == IF event.note_url = None THEN << >> ELSE StripWs(Val(event.note_url))
        note_id_str == IF event.note_id # None THEN IntToStr(Val(event.note_id)) ELSE << >>
        same       == { idx \in 2..Len(rows) :
                           \/ /\ note_id_str # << >>
                              /\ CellText(rows[idx], 2) = note_id_str
                           \/ /\ note_id_str = << >>
                              /\ CellText(rows[idx], 1) = note_title
                              /\ CellText(rows[idx], 3) = note_url }
    IN  IF note_title = NO_NOTE_KEY THEN sheets
        ELSE IF same # {}
        THEN LET idx   == CHOOSE i \in same : \A j \in same : i <= j
                 raw   == IF Len(rows[idx]) >= 4 THEN StripWs(rows[idx][4]) ELSE << "0" >>
                 count == IF ParseInt(raw) = None THEN 0 ELSE Val(ParseInt(raw))
             IN  [sheets EXCEPT ![name] =
                     [rows EXCEPT ![idx] = [@ EXCEPT ![4] = IntToStr(count + 1)]]]
        ELSE [sheets EXCEPT ![name] =
                 UpdateRow(rows, find_first_free_stats_row(rows),
                           << note_title, note_id_str, note_url, << "1" >> >>)]

\* The groups of the events: a group under the title it had first and under
\* the title it was given later, and another group with that first title.
TitleHR == << "H", "R" >>
TitleHRTeam == << "H", "R", " ", "T", "e", "a", "m" >>
StatsGroups == { [id |-> 77, title |-> TitleHR], [id |-> 77, title |-> TitleHRTeam],
                 [id |-> 88, title |-> TitleHR] }

\* The notes of the events, each bound to one group: two notes with the same
\* title, a note whose owner typed the text of NO_NOTE_KEY as its title, and
\* a note of the other group.
TitleAd == << "A", "d" >>
StatsNotes == { [id |-> 1, group_id |-> 77, title |-> TitleAd],
                [id |-> 2, group_id |-> 77, title |-> TitleAd],
                [id |-> 3, group_id |-> 77, title |-> NO_NOTE_KEY],
                [id |-> 4, group_id |-> 88, title |-> TitleAd] }

\* Events that carry a note title and a note id.
StatsEvents ==
    { [group_id |-> Some(p[1].id), group_title |-> Some(p[1].title), referrer_id |-> 10,
       referrer_username |-> None, referred_user_id |-> 20, referred_username |-> None,
       note_id |-> Some(p[2].id), note_title |-> Some(p[2].title), note_url |-> None,
       source |-> "ref_link"] :
         p \in { q \in StatsGroups \X StatsNotes : q[2].group_id = q[1].id } }

\* The names of the stats worksheets of these groups.
StatsSheetNames ==
    { sanitize_stats_sheet_name(Some(g.id), Some(g.title)) : g \in StatsGroups }

\* The logger has opened a spreadsheet that has no stats worksheet yet; no
\* event has been processed.
InitStats ==
    /\ BotAtRest
    /\ SinkAtRest
    /\ FnAtRest
    /\ spreadsheet = [name \in StatsSheetNames |-> << >>]
    /\ processed = << >>

\* One call of _upsert_stats_sheet_sync, begun and ended before the next.
Call_upsert_stats_sheet_sync(event) ==
    /\ Len(processed) < MaxStatsEvents
    /\ spreadsheet' = upsert_stats_sheet_sync(spreadsheet, event)
    /\ processed' = Append(processed, event)
    /\ UNCHANGED << bot_vars, sink_vars, fn_vars >>

NextStats == \E event \in StatsEvents : Call_upsert_stats_sheet_sync(event)

SpecStats == InitStats /\ [][NextStats]_vars

\* The events processed so far that are about note id n.
EventsOfNote(n) == { i \in 1..Len(processed) : processed[i].note_id = Some(n) }

\* The stats worksheet of the group of note id n: the one named after the
\* group as the latest event about the note names it.
SheetOfNote(n) ==
    LET last == CHOOSE i \in EventsOfNote(n) : \A j \in EventsOfNote(n) : i >= j
    IN  spreadsheet[sanitize_stats_sheet_name(processed[last].group_id,
                                              processed[last].group_title)]

\* The rows of a worksheet that are about note id n.
RowsOfNote(rows, n) == { idx \in 2..Len(rows) : CellText(rows[idx], 2) = IntToStr(n) }

\* C35: after any sequence of successfully processed, serially executed
\* events that carry a note title and a note id, each group's stats sheet
\* holds exactly one row per note id and that row's count equals the number
\* of such events processed for that note.
C35_OneRowPerNoteCounted ==
    \A n \in { m.id : m \in StatsNotes } :
        EventsOfNote(n) # {} =>
            /\ Cardinality(RowsOfNote(SheetOfNote(n), n)) = 1
            /\ \A idx \in RowsOfNote(SheetOfNote(n), n) :
                  SheetOfNote(n)[idx][4] = IntToStr(Cardinality(EventsOfNote(n)))



\* C36: no reminder message is sent to a user at a moment when that user's
\* device answer is already committed in the store, under any interleaving
\* of the reminder worker's steps (state check, text read, send) with the
\* device-answer handler's steps (update, cancel).
C36_NoReminderOnceDeviceCommitted ==
    [][\A u \in Users :
          reminder_out'[u] > reminder_out[u] =>
             ~(poll_responses[u] # None /\ TruthyStr(Val(poll_responses[u]).device))]_vars



(***************************************************************************)
(* The funnel in a group chat.  /poll and the funnel callbacks are         *)
(* registered without a chat filter: the questions are sent to the chat    *)
(* the command or the button press came from, and the answer is stored     *)
(* for the user who pressed, so in a group every member can press the      *)
(* keyboards another member's answers have brought up.                     *)
(***************************************************************************)
\* The referrer has sent /poll in a group and answered the age and the income
\* question there, so the age, income and device keyboards stand in the
\* group.  The lead, a member of the group, has sent /start to the bot in
\* private and answered nothing.
InitGroupChat ==
    /\ groups = {10, 20}
    /\ users = Users
    /\ \E chosen \in BOOLEAN, text \in SeedTexts :
          /\ referral_settings = [u \in Users |->
                 IF chosen /\ u = 1 THEN Some(10) ELSE None]
          /\ referral_clicks = AfterStart(2, text).clicks
          /\ note_clicks = AfterStart(2, text).notes
          /\ poll_responses =
                 update_poll_response(
                     update_poll_response(
                         ensure_poll_row(AfterStart(2, text).polls, 1, None, None),
                         1, Some(AGE_OPTIONS["18-24"]), None, None),
                     1, None, Some(INCOME_OPTIONS["20-30"]), None)
    /\ REMINDER_TASKS = [u \in Users |-> IF u = 2 THEN "sleep" ELSE "absent"]
    /\ chat = [u \in Users |->
                  {"age", "income", "device"} \cup (IF u = 2 THEN {"start_poll"} ELSE {})]
    /\ group_out = << >>
    /\ reminder_out = [u \in Users |-> 0]
    /\ claim_log = [u \in Users |-> << >>]
    /\ task = [t \in Tasks |-> IdleTask]
    /\ nEvents = 0
    /\ unreferenced_workers = [u \in Users |-> 0]
    /\ device_done = [u \in Users |-> FALSE]
    /\ session_reminders = [u \in Users |-> 0]
    /\ MenusAtRest
    /\ SinkAtRest
    /\ FnAtRest
    /\ SheetsAtRest

SpecGroupChat == InitGroupChat /\ [][NextCallbacks]_vars

\* C37: the funnel order is enforced: in every reachable state a poll row
\* that has a device answer also has an age answer and an income answer, and
\* a row that has an income answer also has an age answer.
C37_FunnelOrder ==
    \A u \in Users :
        poll_responses[u] # None =>
            LET row == Val(poll_responses[u])
            IN  /\ TruthyStr(row.device) => (row.age # None /\ row.income # None)
                /\ row.income # None => row.age # None



(***************************************************************************)
(* The links of notes.  handle_copy_note_ref hands the owner of note N the *)
(* link "?start=ref_<owner>_note_<N>"; the store holds the notes the links *)
(* are about.                                                              *)
(***************************************************************************)
\* The notes in the store: one of the referrer, one of another referrer.
LinkedNotes ==
    { [id |-> 1, owner_id |-> 1, group_id |-> Some(10), title |-> PlainText, url |-> << >>],
      [id |-> 2, owner_id |-> 3, group_id |-> Some(20), title |-> PlainText, url |-> << >>] }

\* The /start texts of the links the bot has handed to the owners of the notes.
NoteLinkTexts ==
    { StartWord \o << " " >> \o PayloadRef1 \o NoteOne,
      StartWord \o << " " >> \o PayloadRef3 \o NoteTwo }

\* The states of Init with the two notes in the store.
InitLinks ==
    /\ groups = {10, 20}
    /\ \E chosen \in BOOLEAN, text \in SeedTexts :
          /\ referral_settings = [u \in Users |->
                 IF chosen /\ u = 1 THEN Some(10) ELSE None]
          /\ \/ /\ users = IF chosen THEN {1} ELSE {}
                /\ referral_clicks = {}
                /\ note_clicks = << >>
                /\ poll_responses = [u \in Users |-> None]
                /\ REMINDER_TASKS = [u \in Users |-> "absent"]
                /\ chat = [u \in Users |-> {}]
             \/ /\ users = IF chosen THEN {1, 2} ELSE {2}
                /\ referral_clicks = AfterStart(2, text).clicks
                /\ note_clicks = AfterStart(2, text).notes
                /\ poll_responses =
                       update_poll_response(
                           update_poll_response(AfterStart(2, text).polls, 2,
                                                Some(AGE_OPTIONS["18-24"]), None, None),
                           2, None, Some(INCOME_OPTIONS["20-30"]), None)
                /\ REMINDER_TASKS = [u \in Users |-> IF u = 2 THEN "sleep" ELSE "absent"]
                /\ chat = [u \in Users |->
                       IF u = 2 THEN {"start_poll", "age", "income", "device"} ELSE {}]
    /\ group_out = << >>
    /\ reminder_out = [u \in Users |-> 0]
    /\ claim_log = [u \in Users |-> << >>]
    /\ task = [t \in Tasks |-> IdleTask]
    /\ nEvents = 0
    /\ unreferenced_workers = [u \in Users |-> 0]
    /\ device_done = [u \in Users |-> FALSE]
    /\ session_reminders = [u \in Users |-> 0]
    /\ user_names = [u \in Users |-> None]
    /\ notes = LinkedNotes
    /\ sqlite_sequence = 2
    /\ reminder_settings = DEFAULT_REMINDER_TEXT
    /\ NOTE_CREATION_STATE = [u \in Users |-> None]
    /\ REMINDER_EDITORS = {}
    /\ alerts = [u \in Users |-> << >>]
    /\ SinkAtRest
    /\ FnAtRest
    /\ SheetsAtRest

NextLinks ==
    \/ Next
    \/ \E t \in Tasks, u \in Leads, text \in NoteLinkTexts : cmd_start(t, u, text)

SpecLinks == InitLinks /\ [][NextLinks]_vars

\* C38: whenever a poll row holds both a referrer and a note id and that
\* note exists, the note is owned by that referrer, so a group notification
\* never pairs a lead's referrer with a note belonging to someone else.
C38_RowNoteOwnedByReferrer ==
    \A u \in Users :
        (/\ poll_responses[u] # None
         /\ Val(poll_responses[u]).referrer_id # None
         /\ Val(poll_responses[u]).note_id # None
         /\ fetch_note(notes, Val(Val(poll_responses[u]).note_id)) # None)
        => Val(fetch_note(notes, Val(Val(poll_responses[u]).note_id))).owner_id
              = Val(Val(poll_responses[u]).referrer_id)


(***************************************************************************)
(* Repeated /start with the same note payload.                             *)
(***************************************************************************)
\* C39: each (user, note) pair contributes at most one row to the note click
\* log, so a repeated /start with the same note payload does not raise the
\* count that the note statistics show.
C39_OneNoteClickPerUserAndNote ==
    \A i, j \in DOMAIN note_clicks :
        (/\ note_clicks[i].user_id = note_clicks[j].user_id
         /\ note_clicks[i].note_id = note_clicks[j].note_id)
        => i = j


(***************************************************************************)
(* What may replace the global reminder text.                              *)
(***************************************************************************)
\* A text that is a slash command: its first character is "/".
IsSlashCommand(text) == text # << >> /\ Head(text) = "/"

\* C40: the reminder text is replaced only by a non-empty message that is
\* not a slash command, sent by a user who was editing the reminder text; a
\* command sent while editing is never stored as the reminder text.
C40_ReminderTextOnlyFromFreeText ==
    [][reminder_settings' # reminder_settings
          => /\ \E u \in REMINDER_EDITORS : u \notin REMINDER_EDITORS'
             /\ reminder_settings' # << >>
             /\ ~IsSlashCommand(reminder_settings')]_vars

=============================================================================
